---- MODULE Spec2Model ----
(***************************************************************************)
(* Model of the JCF (Job Configuration File) compiler of                   *)
(* src/__init__.py: stage-flow compilation (process_stages), the flow      *)
(* graph walker (_get_stage_path), the flow rewriter (skip_stages,         *)
(* remove_stages), the singleton resolver (process_singletons), the merge  *)
(* engine (merge) and the variable interpolator (_interpolate_string).     *)
(*                                                                         *)
(* Python values are modelled as follows.                                  *)
(*   - A dict is a function; `k in d` is k \in DOMAIN d.                   *)
(*   - A stage identifier is a record [base, sfx]: the string              *)
(*     base + "_" + str(sfx[1]) + "_" + str(sfx[2]) ... so that the        *)
(*     renaming n + "_" + str(i) of the code is Suffixed(n, i).            *)
(*   - None (and any falsy identifier) is the identifier None.             *)
(*   - The iteration order of a Python 2 dict depends on the hashes of its *)
(*     keys; every operator that iterates a dict takes the order as the    *)
(*     parameter `ord` (a sequence of keys), chosen by the calling action. *)
(*   - An exception leaves the document as mutated so far, with the        *)
(*     exception's class in the field err.                                 *)
(***************************************************************************)
EXTENDS Integers, Sequences, FiniteSets, TLC

(***************************************************************************)
(* Generic helpers for dicts and lists.                                    *)
(***************************************************************************)
Put(f, k, v) == [x \in (DOMAIN f) \cup {k} |-> IF x = k THEN v ELSE f[x]]

Del(f, k) == [x \in (DOMAIN f) \ {k} |-> f[x]]

Get(f, k, default) == IF k \in DOMAIN f THEN f[k] ELSE default

SetDefault(f, k, v) == IF k \in DOMAIN f THEN f ELSE Put(f, k, v)

EmptyDict == [x \in {} |-> x]

\* dict.update: f updated with g
Update(f, g) == [k \in (DOMAIN f) \cup (DOMAIN g) |-> IF k \in DOMAIN g THEN g[k] ELSE f[k]]

Range(s) == {s[i] : i \in DOMAIN s}

Perms(S) ==
  {p \in [1..Cardinality(S) -> S] : \A i, j \in 1..Cardinality(S) : p[i] = p[j] => i = j}

\* the elements of the sequence ord that lie in the set S, in ord's order
RECURSIVE Restrict(_, _)
Restrict(ord, S) ==
  IF ord = <<>> THEN <<>>
  ELSE IF Head(ord) \in S THEN <<Head(ord)>> \o Restrict(Tail(ord), S)
       ELSE Restrict(Tail(ord), S)

(***************************************************************************)
(* Identifiers.                                                            *)
(***************************************************************************)
Name(b) == [base |-> b, sfx |-> <<>>]

\* n + "_" + str(i)
Suffixed(n, i) == [base |-> n.base, sfx |-> Append(n.sfx, i)]

None == Name("")

QUIT == Name("_quit")

NEXT == Name("_next")

\* JCF.flow_controls, in the order the code iterates them
flow_controls == <<"next_default", "next_pass", "next_fail", "next_timeout">>

(***************************************************************************)
(* Flow Graph Walker: JCF._get_stage_path.                                 *)
(***************************************************************************)
\* a successor that prefers next_default to next_pass
DeclaredSuccessorDefaultFirst(v) ==
  IF "next_default" \in DOMAIN v THEN {v["next_default"]}
  ELSE IF "next_pass" \in DOMAIN v THEN {v["next_pass"]}
  ELSE {}

\* the declared successor used by the entry-stage elimination:
\* next_pass if present, else next_default, else nothing
DeclaredSuccessor(v) ==
  IF "next_pass" \in DOMAIN v THEN {v["next_pass"]}
  ELSE IF "next_default" \in DOMAIN v THEN {v["next_default"]}
  ELSE {}

\* "No init_stage so figure it out": the candidate list all_stages after the loop
InitialCandidates(stage_dict, ord) ==
  LET keys == Restrict(ord, DOMAIN stage_dict)
      first == {i \in 1..Len(keys) :
                  /\ "order" \in DOMAIN stage_dict[keys[i]]
                  /\ stage_dict[keys[i]]["order"] = 1}
  IN IF first # {}
     THEN {keys[CHOOSE i \in first : \A j \in first : i <= j]}
     ELSE (DOMAIN stage_dict) \
            UNION {DeclaredSuccessor(stage_dict[id]) : id \in DOMAIN stage_dict}

\* the stage that follows stage v along `path`
Successor(v, path) ==
  LET next_stage == Get(v, path, NEXT)
  IN IF next_stage = None \/ next_stage = NEXT
     THEN LET nd == Get(v, "next_default", QUIT)
          IN IF nd = None THEN QUIT ELSE nd
     ELSE next_stage

\* the while(1) loop: the ids visited from s on, appended to ordered
RECURSIVE Walk(_, _, _, _)
Walk(stage_dict, path, s, ordered) ==
  IF s \in Range(ordered) \/ s \notin DOMAIN stage_dict THEN ordered
  ELSE LET nxt == Successor(stage_dict[s], path)
       IN IF nxt = QUIT THEN Append(ordered, s)
          ELSE Walk(stage_dict, path, nxt, Append(ordered, s))

\* _get_stage_path(path, init_stage, stage_dict) on document d.
\* Returns [ordered: the ids on the path, other: the standalone ids, err].
get_stage_path(d, path, init_stage, stage_dict, ord) ==
  IF DOMAIN stage_dict = {} THEN [ordered |-> <<>>, other |-> {}, err |-> ""]
  ELSE
    LET given == IF init_stage # None THEN init_stage
                 ELSE IF d.init_stage # None THEN d.init_stage
                 ELSE d.auto_init_stage
        all_stages == InitialCandidates(stage_dict, ord)
    IN IF given = None /\ Cardinality(all_stages) # 1
       THEN [ordered |-> <<>>, other |-> {}, err |-> "ValueError"]
       ELSE
         LET s == IF given # None THEN given ELSE CHOOSE x \in all_stages : TRUE
             ordered == Walk(stage_dict, path, s, <<>>)
             other == (DOMAIN stage_dict) \ Range(ordered)
             \* (id, self.stages[id]) for the standalone ids
             lookup == IF other = {} THEN ""
                       ELSE IF d.is_list THEN "TypeError"
                       ELSE IF other \subseteq DOMAIN d.stages THEN ""
                       ELSE "KeyError"
         IN [ordered |-> ordered, other |-> other, err |-> lookup]

\* get_ordered_stages() on document d, whose stages are a dict: [ordered, other, err]
get_ordered_stages(d, ord) ==
  get_stage_path(d, "next_default", None, d.stages, ord)

(***************************************************************************)
(* Flow Rewriter: JCF.skip_stages and JCF.remove_stages.                   *)
(***************************************************************************)
\* the value a flow control fc that names the skipped stage d_stage is
\* redirected to; [err, val]
SkipTarget(d_stage, fc) ==
  IF "next_pass" \in DOMAIN d_stage
  THEN [err |-> "", val |-> d_stage["next_pass"]]
  ELSE IF "next_default" \notin DOMAIN d_stage
       THEN [err |-> "KeyError", val |-> None]
       ELSE [err |-> "", val |-> Get(d_stage, fc, d_stage["next_default"])]

\* the value init_stage is redirected to when it names the skipped stage d_stage
SkipInitTarget(d_stage) ==
  IF "next_pass" \in DOMAIN d_stage
  THEN [err |-> "", val |-> d_stage["next_pass"]]
  ELSE IF "next_default" \notin DOMAIN d_stage
       THEN [err |-> "KeyError", val |-> None]
       ELSE [err |-> "", val |-> d_stage["next_default"]]

\* "Route any other stages": the (stage, flow control) pairs from position
\* (i, j) of (keys, flow_controls) on. acc = [stages, reroutes, err]
RECURSIVE SkipRoute(_, _, _, _, _)
SkipRoute(acc, keys, stage_list, i, j) ==
  IF acc.err # "" \/ i > Len(keys) THEN acc
  ELSE IF j > Len(flow_controls) THEN SkipRoute(acc, keys, stage_list, i + 1, 1)
  ELSE
    LET s == acc.stages[keys[i]]
        fc == flow_controls[j]
    IN IF fc \in DOMAIN s /\ s[fc] \in stage_list
       THEN IF s[fc] \notin DOMAIN acc.stages
            THEN [acc EXCEPT !.err = "KeyError"]
            ELSE LET t == SkipTarget(acc.stages[s[fc]], fc)
                 IN IF t.err # "" THEN [acc EXCEPT !.err = t.err]
                    ELSE SkipRoute([acc EXCEPT !.stages = Put(acc.stages, keys[i],
                                                               Put(s, fc, t.val)),
                                               !.reroutes = TRUE],
                                   keys, stage_list, i, j + 1)
       ELSE SkipRoute(acc, keys, stage_list, i, j + 1)

\* one iteration of the while loop of skip_stages; [d, reroutes]
SkipPass(d, stage_list, ord) ==
  LET routed_init ==
        IF d.init_stage \in stage_list
        THEN IF d.init_stage \notin DOMAIN d.stages
             THEN [d |-> [d EXCEPT !.err = "KeyError"], reroutes |-> FALSE]
             ELSE LET t == SkipInitTarget(d.stages[d.init_stage])
                  IN IF t.err # ""
                     THEN [d |-> [d EXCEPT !.err = t.err], reroutes |-> FALSE]
                     ELSE [d |-> [d EXCEPT !.init_stage = t.val], reroutes |-> TRUE]
        ELSE [d |-> d, reroutes |-> FALSE]
      d1 == routed_init.d
      r == SkipRoute([stages |-> d1.stages, reroutes |-> routed_init.reroutes,
                      err |-> d1.err],
                     Restrict(ord, DOMAIN d1.stages), stage_list, 1, 1)
  IN [d |-> [d1 EXCEPT !.stages = r.stages, !.err = r.err], reroutes |-> r.reroutes]

\* the while loop of skip_stages. seen[k] is the document after k - 1
\* iterations, the last one being the current document. An iteration that
\* reroutes and leaves a document seen before repeats from there on: with
\* max_depth = -1 the loop never ends (err = "Hang"), otherwise it runs until
\* depth exceeds max_depth and FlowError is raised on the document reached then.
RECURSIVE SkipLoop(_, _, _)
SkipLoop(seen, stage_list, ord) ==
  LET d == seen[Len(seen)]
      depth == Len(seen)
  IN IF d.max_depth # -1 /\ depth > d.max_depth
     THEN [d EXCEPT !.err = "FlowError"]
     ELSE LET p == SkipPass(d, stage_list, ord)
          IN IF p.d.err # "" \/ ~p.reroutes THEN p.d
             ELSE IF \E j \in 1..Len(seen) : seen[j] = p.d
             THEN IF d.max_depth = -1 THEN [p.d EXCEPT !.err = "Hang"]
                  ELSE LET j == CHOOSE k \in 1..Len(seen) : seen[k] = p.d
                           period == Len(seen) + 1 - j
                           at == j + ((d.max_depth - (j - 1)) % period)
                       IN [seen[at] EXCEPT !.err = "FlowError"]
             ELSE SkipLoop(Append(seen, p.d), stage_list, ord)

\* a skip_stages that returns at once whatever stage_list holds
skip_stages_ignored(d, stage_list, ord) == d

\* skip_stages(stage_list); stage_list is used for membership only
skip_stages(d, stage_list, ord) ==
  IF stage_list = {} THEN d ELSE SkipLoop(<<d>>, stage_list, ord)

\* remove_stages(stage_list)
RemoveSkipped(r, stage_list) ==
  IF r.err # "" THEN r
  ELSE [r EXCEPT !.stages = [id \in (DOMAIN r.stages) \ stage_list |-> r.stages[id]]]

remove_stages(d, stage_list, ord) ==
  RemoveSkipped(skip_stages(d, stage_list, ord), stage_list)

(***************************************************************************)
(* Stage Flow Compiler: JCF.process_stages.                                *)
(***************************************************************************)
\* a renaming that tries base_id_2 only
UniqueIdOnce(id, base_id, i, stage_names) ==
  IF id \in stage_names THEN Suffixed(base_id, i) ELSE id

\* "Create unique stage ID": while id in stage_names: id = base_id + "_" + str(i)
RECURSIVE UniqueId(_, _, _, _)
UniqueId(id, base_id, i, stage_names) ==
  IF id \in stage_names THEN UniqueId(Suffixed(base_id, i), base_id, i + 1, stage_names)
  ELSE id

\* "Find highest order": the order counter after seeing stage v
HighestOrder(v, order) ==
  IF "order" \in DOMAIN v /\ v["order"] >= order THEN v["order"] + 1 ELSE order

\* "Make all names unique": the first loop over the list form, from index
\* stage_index on. acc = [list, order]
RECURSIVE UniqueNames(_, _)
UniqueNames(acc, stage_index) ==
  IF stage_index > Len(acc.list) THEN acc
  ELSE
    LET base_id == acc.list[stage_index].key
        v == acc.list[stage_index].val
        stage_names == {acc.list[j].key : j \in (1..Len(acc.list)) \ {stage_index}}
        id == UniqueId(base_id, base_id, 2, stage_names)
        v2 == SetDefault(Put(v, "id", id), "instance", 1)
    IN UniqueNames([list |-> [acc.list EXCEPT ![stage_index] = [key |-> id, val |-> v2]],
                    order |-> HighestOrder(v, acc.order)],
                   stage_index + 1)

\* "Separate stages according to these rules": the bucket of the stage v
\* stored under id, and v as the classification leaves it.
\* The list form tests next_pass first, the dict form next_default first;
\* both test `"order" in s` on the single-key map s = {id: v}.
ClassifyStage(id, v, list_form) ==
  LET copy_pass == Put(v, "next_default", v["next_pass"])
      pass_first == list_form \/ "next_default" \notin DOMAIN v
  IN IF "next_pass" \in DOMAIN v /\ pass_first
     THEN [bucket |-> "next", v |-> Del(copy_pass, "order"), err |-> ""]
     ELSE IF "next_default" \in DOMAIN v
     THEN [bucket |-> "next", v |-> Del(v, "order"), err |-> ""]
     ELSE IF id = Name("order")
     THEN [bucket |-> "explicit", v |-> v,
           err |-> IF "order" \in DOMAIN v THEN "" ELSE "KeyError"]
     ELSE [bucket |-> "implicit", v |-> v, err |-> ""]

\* the classification loop over the stages in the sequence keys.
\* acc = [store: id -> stage, next: ids of next_order_stages,
\*        explicit, implicit: sequences of ids, order, err]
RECURSIVE Classify(_, _, _, _)
Classify(acc, keys, i, list_form) ==
  IF acc.err # "" \/ i > Len(keys) THEN acc
  ELSE
    LET id == keys[i]
        v0 == acc.store[id]
        v1 == IF list_form THEN v0 ELSE SetDefault(Put(v0, "id", id), "instance", 1)
        c == ClassifyStage(id, v1, list_form)
        order2 == IF c.bucket = "explicit" /\ c.err = ""
                  THEN HighestOrder(c.v, acc.order) ELSE acc.order
    IN Classify([store |-> Put(acc.store, id, c.v),
                 next |-> IF c.bucket = "next" THEN acc.next \cup {id} ELSE acc.next,
                 explicit |-> IF c.bucket = "explicit" THEN Append(acc.explicit, id)
                              ELSE acc.explicit,
                 implicit |-> IF c.bucket = "implicit" THEN Append(acc.implicit, id)
                              ELSE acc.implicit,
                 order |-> order2,
                 err |-> c.err],
                keys, i + 1, list_form)

\* "Apply order to implicit stages"; acc as above
RECURSIVE ApplyOrder(_, _)
ApplyOrder(acc, i) ==
  IF i > Len(acc.implicit) THEN acc
  ELSE LET id == acc.implicit[i]
       IN ApplyOrder([acc EXCEPT !.store = Put(acc.store, id,
                                                Put(acc.store[id], "order", acc.order)),
                                 !.order = acc.order + 1,
                                 !.explicit = Append(acc.explicit, id)],
                     i + 1)

\* sorted(explicit_order_stages, key = order): a stable insertion sort
RECURSIVE InsertByOrder(_, _, _)
InsertByOrder(sorted, id, store) ==
  IF sorted = <<>> THEN <<id>>
  ELSE IF store[sorted[Len(sorted)]]["order"] <= store[id]["order"]
       THEN Append(sorted, id)
       ELSE Append(InsertByOrder(SubSeq(sorted, 1, Len(sorted) - 1), id, store),
                   sorted[Len(sorted)])

RECURSIVE SortByOrder(_, _)
SortByOrder(ids, store) ==
  IF ids = <<>> THEN <<>>
  ELSE InsertByOrder(SortByOrder(SubSeq(ids, 1, Len(ids) - 1), store),
                     ids[Len(ids)], store)

\* the first link loop: prev_stage["next_default"] = id along the default path
LinkPath(store, path) ==
  [id \in DOMAIN store |->
     IF \E i \in 1..(Len(path) - 1) : path[i] = id
     THEN Put(store[id], "next_default",
              path[(CHOOSE i \in 1..(Len(path) - 1) : path[i] = id) + 1])
     ELSE store[id]]

\* a second link loop that stops one stage early
LinkExplicitShort(store, sorted) ==
  [id \in DOMAIN store |->
     IF \E i \in 1..Len(sorted) : sorted[i] = id
     THEN LET i == CHOOSE k \in 1..Len(sorted) : sorted[k] = id
              linked == IF i < Len(sorted) - 1
                        THEN Put(store[id], "next_default", sorted[i + 1])
                        ELSE store[id]
          IN Del(linked, "order")
     ELSE store[id]]

\* the second link loop over the explicit-order stages, sorted: each is linked
\* to the next one and loses its order field
LinkExplicit(store, sorted) ==
  [id \in DOMAIN store |->
     IF \E i \in 1..Len(sorted) : sorted[i] = id
     THEN LET i == CHOOSE k \in 1..Len(sorted) : sorted[k] = id
              linked == IF i < Len(sorted)
                        THEN Put(store[id], "next_default", sorted[i + 1])
                        ELSE store[id]
          IN Del(linked, "order")
     ELSE store[id]]

\* "gather any disable (skipped) stage names"
DisabledStages(stages) ==
  {id \in DOMAIN stages : Get(stages[id], "disable", FALSE)}

\* "add required keys if not present: target"
DefaultTarget(stages) ==
  [id \in DOMAIN stages |-> SetDefault(stages[id], "target", "${sut}")]

\* the keys of the stage map of d once it is in dict form
StageKeys(d) ==
  IF d.is_list
  THEN LET u == UniqueNames([list |-> d.stages_list, order |-> d.order], 1)
       IN {u.list[i].key : i \in 1..Len(u.list)}
  ELSE DOMAIN d.stages

StagesEmpty(d) == IF d.is_list THEN d.stages_list = <<>> ELSE DOMAIN d.stages = {}

\* the document while process_stages classifies and orders its stages (they
\* are changed in place): keys and store are the stages of self.stages
InPlace(d, keys, store) ==
  [d EXCEPT !.stages_list = IF d.is_list
                            THEN [i \in 1..Len(keys) |->
                                    [key |-> keys[i], val |-> store[keys[i]]]]
                            ELSE <<>>,
            !.stages = IF d.is_list THEN d.stages ELSE store]

\* "Find highest order number" of the dict form
DictOrder(d) ==
  LET os == {d.stages[id]["order"] :
               id \in {x \in DOMAIN d.stages : "order" \in DOMAIN d.stages[x]}}
  IN IF os = {} THEN d.order
     ELSE LET m == CHOOSE o \in os : \A o2 \in os : o2 <= o
          IN IF m >= d.order THEN m + 1 ELSE d.order

\* the two link loops, "Assign new stage structure to JCF" and the target
\* defaults. d_a is the document and a the buckets after "Apply order",
\* stage_paths the walk over next_order_stages, sorted the sorted
\* explicit_order_stages
LinkLoops(d_a, a, stage_paths, sorted) ==
  IF stage_paths.err # "" THEN [d_a EXCEPT !.err = stage_paths.err]
  ELSE [d_a EXCEPT
          !.stages = DefaultTarget(LinkExplicit(LinkPath(a.store, stage_paths.ordered),
                                                sorted)),
          !.stages_list = <<>>,
          !.is_list = FALSE,
          !.auto_init_stage = IF stage_paths.ordered # <<>> THEN stage_paths.ordered[1]
                              ELSE IF sorted # <<>> THEN sorted[1]
                              ELSE d_a.auto_init_stage]

\* "Build new dict with correct order", from the buckets a
LinkOrdered(d_a, a, ord) ==
  LinkLoops(d_a, a,
            get_stage_path(d_a, "next_default", None,
                           [id \in a.next |-> a.store[id]], ord),
            SortByOrder(a.explicit, a.store))

\* COMMON PROCESSING, from the buckets c of the classification
LinkClassified(d, keys, c, ord) ==
  IF c.err # ""
  THEN [InPlace(d, keys, c.store) EXCEPT !.order = c.order, !.err = c.err]
  ELSE LinkOrdered([InPlace(d, keys, ApplyOrder(c, 1).store)
                      EXCEPT !.order = ApplyOrder(c, 1).order],
                   ApplyOrder(c, 1), ord)

\* the buckets of the stages store, classified in the order keys
Classified(keys, store, order, list_form) ==
  Classify([store |-> store, next |-> {}, explicit |-> <<>>,
            implicit |-> <<>>, order |-> order, err |-> ""],
           keys, 1, list_form)

\* the classification of the stages store, iterated in the order keys
LinkFrom(d, keys, store, order, ord) ==
  LinkClassified(d, keys, Classified(keys, store, order, d.is_list), ord)

\* the ids of the list form u = [list, order], in list order
ListKeys(u) == [i \in 1..Len(u.list) |-> u.list[i].key]

\* the stages of the list form u = [list, order], by id
ListStore(u) ==
  [id \in {u.list[i].key : i \in 1..Len(u.list)} |->
     u.list[CHOOSE i \in 1..Len(u.list) : u.list[i].key = id].val]

\* the list form after "Make all names unique" left u = [list, order]
LinkList(d, u, ord) == LinkFrom(d, ListKeys(u), ListStore(u), u.order, ord)

\* the buckets of the list form u = [list, order]
ClassifiedList(u) == Classified(ListKeys(u), ListStore(u), u.order, TRUE)

\* process_stages() up to "COMMON PROCESSING": the buckets the
\* classification of the stages of d leaves
classify_stages(d, ord) ==
  IF d.is_list
  THEN ClassifiedList(UniqueNames([list |-> d.stages_list, order |-> d.order], 1))
  ELSE Classified(Restrict(ord, DOMAIN d.stages), d.stages, DictOrder(d), FALSE)

\* process_stages() up to "Assign new stage structure to JCF" and the target
\* defaults, i.e. all of it but the call of skip_stages. ord is the
\* iteration order of the dict self.stages.
link_stages(d, ord) ==
  IF d.is_list
  THEN LinkList(d, UniqueNames([list |-> d.stages_list, order |-> d.order], 1), ord)
  ELSE LinkFrom(d, Restrict(ord, DOMAIN d.stages), d.stages, DictOrder(d), ord)

\* the except clause around skip_stages: the flow error is raised again as
\* a ValueError
FlowChecked(skipped) ==
  IF skipped.err = "FlowError" THEN [skipped EXCEPT !.err = "ValueError"] ELSE skipped

\* process_stages() from "Skip disabled stages" on, l being the linked document
SkipLinked(l, skip_ord) ==
  IF l.err # "" THEN l
  ELSE FlowChecked(skip_stages(l, DisabledStages(l.stages), skip_ord))

\* process_stages() on document d. ord is the iteration order of the dict
\* self.stages on entry, skip_ord that of the dict assigned to self.stages.
process_stages(d, ord, skip_ord) ==
  IF StagesEmpty(d) THEN d ELSE SkipLinked(link_stages(d, ord), skip_ord)

(***************************************************************************)
(* Singleton Resolver: JCF.process_singletons.                             *)
(***************************************************************************)
\* str.lower() on the strings the bounded documents use
Lower(str) ==
  CASE str = "G" -> "g"
    [] str = "LAST" -> "last"
    [] OTHER -> str

\* stage v declares a singleton group
IsSingleton(v) == "singleton_group" \in DOMAIN v

\* singletons[singleton_id]: the stages of the group
Members(stages, singleton_id) ==
  {id \in DOMAIN stages :
     IsSingleton(stages[id]) /\ Lower(stages[id]["singleton_group"]) = singleton_id}

\* singletons.keys()
Groups(stages) ==
  {Lower(stages[id]["singleton_group"]) : id \in {x \in DOMAIN stages : IsSingleton(stages[x])}}

\* singleton_chosen[singleton_id], lowered: the singleton_choice of the first
\* stage of the group, in the iteration order ord of self.stages, that has
\* one; "first" if none has
Chosen(stages, singleton_id, ord) ==
  LET declaring == {i \in 1..Len(ord) :
                      /\ ord[i] \in Members(stages, singleton_id)
                      /\ "singleton_choice" \in DOMAIN stages[ord[i]]}
  IN IF declaring = {} THEN "first"
     ELSE Lower(stages[ord[CHOOSE i \in declaring : \A j \in declaring : i <= j]]
                  ["singleton_choice"])

\* "Find either the first or last instance": the scan of the group's stages
\* in the sequence ids from position i on, keep_stage being the choice so far
RECURSIVE KeepStage(_, _, _, _, _)
KeepStage(keep_stage, ids, i, stages, chosen) ==
  IF i > Len(ids) THEN keep_stage
  ELSE LET instance == stages[ids[i]]["instance"]
           better ==
             \/ keep_stage = None
             \/ chosen = "first" /\ instance < stages[keep_stage]["instance"]
             \/ chosen = "last" /\ instance > stages[keep_stage]["instance"]
       IN KeepStage(IF better THEN ids[i] ELSE keep_stage, ids, i + 1, stages, chosen)

\* stages_to_remove. ord is the iteration order of self.stages, group_ord
\* that of the dicts singletons[singleton_id]
StagesToRemove(stages, ord, group_ord) ==
  UNION {Members(stages, g) \
           {KeepStage(None, Restrict(group_ord, Members(stages, g)), 1, stages,
                      Chosen(stages, g, ord))} :
         g \in Groups(stages)}

\* remove_stages(stages_to_remove) as process_singletons calls it
RemoveDuplicates(d, stage_list, skip_ord) ==
  IF remove_stages(d, stage_list, skip_ord).err = "FlowError"
  THEN [remove_stages(d, stage_list, skip_ord) EXCEPT !.err = "ValueError"]
  ELSE remove_stages(d, stage_list, skip_ord)

\* process_singletons(). A list has no items() (AttributeError); a stage
\* with singleton_group and without instance raises KeyError.
process_singletons(d, ord, group_ord, skip_ord) ==
  IF d.is_list THEN [d EXCEPT !.err = "AttributeError"]
  ELSE IF \E id \in DOMAIN d.stages :
            IsSingleton(d.stages[id]) /\ "instance" \notin DOMAIN d.stages[id]
  THEN [d EXCEPT !.err = "KeyError"]
  ELSE RemoveDuplicates(d, StagesToRemove(d.stages, ord, group_ord), skip_ord)

(***************************************************************************)
(* Document Model: JCF.__init__.                                           *)
(***************************************************************************)
\* JCF.__init__ default of max_depth
DefaultMaxDepth == 100

\* self.default_name
default_name == "cirrus_job"

\* "Propagate serial numbers to stages"
StampSerial(v, serial) ==
  IF "_serial" \notin DOMAIN v \/ v["_serial"] = "" THEN Put(v, "_serial", serial) ELSE v

\* the _serial of an include entry, "" for an entry without and for a bare
\* file name
EntrySerial(entry) ==
  IF "serial" \in DOMAIN entry /\ ~entry.simple THEN entry.serial ELSE ""

\* JCF(raw, max_depth, serial); `generated` is the value the random serial
\* takes when one is generated. raw is a dict of sections; its "stages" is
\* [is_list, list, dict].
Construct(raw, max_depth, serial, generated) ==
  LET has_info == "info" \in DOMAIN raw
      info0 == Get(raw, "info", EmptyDict)
      imported == has_info /\ "_serial" \in DOMAIN info0
      the_serial == IF imported THEN info0["_serial"]
                    ELSE IF serial # "" THEN serial
                    ELSE generated
      \* raw["info"]["_serial"] = self._serial with no info section in raw
      err == IF ~imported /\ serial # "" /\ ~has_info THEN "KeyError" ELSE ""
      info1 == Put(info0, "_serial", the_serial)
      info2 == IF "name" \in DOMAIN raw THEN Put(info1, "name", raw["name"]) ELSE info1
      info3 == IF "desc" \in DOMAIN raw THEN Put(info2, "desc", raw["desc"]) ELSE info2
      info4 == SetDefault(SetDefault(SetDefault(info3, "name", default_name),
                                     "desc", ""), "login_name", "anonymous")
      st == Get(raw, "stages", [is_list |-> FALSE, list |-> <<>>, dict |-> EmptyDict])
      \* what follows the KeyError is not run
      stamped(v) == IF err = "" THEN StampSerial(v, the_serial) ELSE v
  IN [info |-> IF err = "" THEN info4 ELSE info0,
      serial |-> the_serial,
      init_stage |-> Get(raw, "init_stage", None),
      auto_init_stage |-> None,
      is_list |-> st.is_list,
      stages_list |-> [i \in 1..Len(st.list) |->
                         [key |-> st.list[i].key,
                          val |-> stamped(st.list[i].val)]],
      stages |-> [id \in DOMAIN st.dict |-> stamped(st.dict[id])],
      max_depth |-> max_depth,
      order |-> 1,
      ckey |-> Get(raw, "ckey", EmptyDict),
      \* include: the entries [id, simple, serial], simple for the bare file
      \* name in place of {"id": ...}, serial for the _serial of the entry
      \* ("" without); "Handle simple include format" unless max_depth is 0.
      \* included: the paths, as a set (process_includes leaves
      \* list(set(...))). include_options: its keys, as a set
      include |-> [n \in 1..Len(Get(raw, "include", <<>>)) |->
                     [id |-> raw["include"][n].id,
                      simple |-> raw["include"][n].simple /\ (max_depth = 0 \/ err # ""),
                      serial |-> EntrySerial(raw["include"][n])]],
      included |-> Get(raw, "included", {}),
      include_options |-> Get(raw, "include_options", {}),
      \* "Store local information"
      local |-> IF err # "" THEN Get(raw, "local", EmptyDict)
                ELSE Put(Get(raw, "local", EmptyDict), the_serial,
                         Update(Get(Get(raw, "local", EmptyDict), the_serial, EmptyDict),
                                Get(raw, "local_ckey", EmptyDict))),
      ckey_template |-> Get(raw, "ckey_template", EmptyDict),
      interpolation_errors |-> <<>>,
      err |-> err]

(***************************************************************************)
(* Merge Engine and Conflict Resolver: JCF.merge, on documents that        *)
(* declare no SUT, tag, ckey or template and hold no ${stages...} token.   *)
(***************************************************************************)
\* an info merge in which the keys of self always win
MergeInfoSectionsSelfFirst(self_info, from_info) == Update(from_info, self_info)

\* "take the info section that contains a cirrus_job_id, else merge key-by-key"
MergeInfoSections(self_info, from_info) ==
  IF "cirrus_job_id" \notin DOMAIN self_info /\ "cirrus_job_id" \in DOMAIN from_info
  THEN Update(self_info, from_info)
  ELSE Update(from_info, self_info)

\* "special case for name": info is self.info after the sections are merged
MergeName(info, from_info) ==
  IF info["name"] = default_name /\ from_info["name"] # default_name
  THEN Update(info, [k \in {x \in {"name", "desc"} :
                              x \in DOMAIN from_info /\ from_info[x] # ""} |->
                       from_info[k]])
  ELSE info

\* the Info part of merge
MergeInfo(self_info, from_info) ==
  MergeName(MergeInfoSections(self_info, from_info), from_info)

\* "Create a new name": the first of n_i, n_(i+1), ... in neither name list
RECURSIVE NewName(_, _, _, _)
NewName(n, i, my_stage_names, merge_from_stage_names) ==
  IF Suffixed(n, i) \in my_stage_names \/ Suffixed(n, i) \in merge_from_stage_names
  THEN NewName(n, i + 1, my_stage_names, merge_from_stage_names)
  ELSE Suffixed(n, i)

\* a rename that leaves the flow controls alone
RenameFlowControlsKept(v, n, new_name) == v

\* "Find and replace all flow controls referencing this stage" in stage v
RenameFlowControls(v, n, new_name) ==
  [k \in DOMAIN v |->
     IF (\E j \in 1..Len(flow_controls) : flow_controls[j] = k) /\ v[k] = n
     THEN new_name ELSE v[k]]

\* "Begin rename process" for the stage n of merge_from; from_stages are the
\* stages of merge_from
RenameStage(from_stages, n, new_name) ==
  LET moved == Put(Del(from_stages, n), new_name,
                   Put(Put(from_stages[n], "id", new_name),
                       "instance", new_name.sfx[Len(new_name.sfx)]))
  IN [id \in DOMAIN moved |-> RenameFlowControls(moved[id], n, new_name)]

\* the loop over merge_from_stage_names, from position i of names on.
\* acc = [mine: self.stages, theirs: merge_from.stages]. The stages merged
\* into self.stages are the objects of merge_from.stages: a later rename
\* changes them in both.
RECURSIVE MergeStages(_, _, _, _, _)
MergeStages(acc, names, i, my_stage_names, merge_from_stage_names) ==
  IF i > Len(names) THEN acc
  ELSE
    LET n == names[i]
        new_name == IF n \in my_stage_names
                    THEN NewName(n, 2, my_stage_names, merge_from_stage_names)
                    ELSE n
        theirs == IF n \in my_stage_names THEN RenameStage(acc.theirs, n, new_name)
                  ELSE acc.theirs
    IN MergeStages([mine |-> [id \in (DOMAIN acc.mine) \cup {new_name} |->
                                IF id = new_name THEN theirs[new_name]
                                ELSE IF id \in DOMAIN theirs /\ id \notin my_stage_names
                                     THEN theirs[id]
                                     ELSE acc.mine[id]],
                    theirs |-> theirs],
                   names, i + 1, my_stage_names, merge_from_stage_names)

\* merge() from "Copy init stage" to the end of the rename loop: s and m are
\* self and merge_from as the two process_stages calls left them. An empty
\* stages list is still a list then, and has no keys() (AttributeError).
MergeRenamed(s, m, rename_ord) ==
  IF s.err # "" THEN s
  ELSE IF m.err # "" THEN [s EXCEPT !.err = m.err]
  ELSE IF s.is_list \/ m.is_list
  THEN [s EXCEPT !.init_stage = IF s.init_stage = None THEN m.init_stage ELSE s.init_stage,
                 !.auto_init_stage = None,
                 !.err = "AttributeError"]
  ELSE [s EXCEPT !.init_stage = IF s.init_stage = None THEN m.init_stage ELSE s.init_stage,
                 !.auto_init_stage = None,
                 !.ckey = Update(m.ckey, s.ckey),
                 !.local = Update(m.local, s.local),
                 !.ckey_template = Update(s.ckey_template, m.ckey_template),
                 !.stages = MergeStages([mine |-> s.stages, theirs |-> m.stages],
                                        Restrict(rename_ord, DOMAIN m.stages), 1,
                                        DOMAIN s.stages, DOMAIN m.stages).mine]

\* "Re-process stages"
MergeReprocess(r, ord2, skip_ord2) ==
  IF r.err # "" THEN r ELSE process_stages(r, ord2, skip_ord2)

\* self after the Info part of merge and "Convert stages into consistent
\* format"
MergeMine(d, merge_from, ord, skip_ord) ==
  process_stages([d EXCEPT !.info = MergeInfo(d.info, merge_from.info)], ord, skip_ord)

\* merge(merge_from) on document d. o holds the dict iteration orders: ord
\* and skip_ord of self.process_stages(), from_ord and from_skip_ord of
\* merge_from.process_stages(), rename_ord of merge_from_stage_names, ord2
\* and skip_ord2 of the last self.process_stages()
merge(d, merge_from, o) ==
  MergeReprocess(MergeRenamed(MergeMine(d, merge_from, o.ord, o.skip_ord),
                              process_stages(merge_from, o.from_ord, o.from_skip_ord),
                              o.rename_ord),
                 o.ord2, o.skip_ord2)

\* some sequence of the elements of the set S
RECURSIVE SetToSeq(_)
SetToSeq(S) ==
  IF S = {} THEN <<>>
  ELSE LET x == CHOOSE y \in S : TRUE IN <<x>> \o SetToSeq(S \ {x})

(***************************************************************************)
(* Include Resolver: JCF.process_includes.                                 *)
(*   - files maps the id of an include entry to the JSON document          *)
(*     util.retrieve_file and util.read_json find for it; every id that is *)
(*     included has a file. An include entry holds an id and, in the     *)
(*     dict format, may hold a _serial (no status).                        *)
(*   - perm is the order in which every dict of stages is iterated, as far *)
(*     as it ranks their keys; further keys follow in a fixed order.       *)
(***************************************************************************)
Digits == <<"1", "2", "3", "4", "5", "6", "7", "8", "9">>

\* the serial random.randint gives the document built for entry n of the
\* include list of d: one no other document has
FreshSerial(d, n, file) == file \o "_" \o d.serial \o "." \o Digits[n]

\* JCF(local_file, serial=serial): max_depth takes its default, the default
\* name is the base name of the path
ConstructFile(path, raw, serial, generated) ==
  LET c == Construct(raw, DefaultMaxDepth, serial, generated)
  IN IF "name" \in DOMAIN raw \/ "name" \in DOMAIN Get(raw, "info", EmptyDict) \/ c.err # ""
     THEN c
     ELSE [c EXCEPT !.info = Put(c.info, "name", path)]

\* the iteration order of a dict with the keys `keys`
OrderOf(perm, keys) == Restrict(perm, keys) \o SetToSeq(keys \ Range(perm))

\* the keys of the stages of s, of m and of the stages of m that merge renames
MergeKeys(s, m) ==
  (DOMAIN s.stages) \cup (DOMAIN m.stages) \cup
  {NewName(n, 2, DOMAIN s.stages, DOMAIN m.stages) :
     n \in (DOMAIN s.stages) \cap (DOMAIN m.stages)}

\* the iteration orders of self.merge(merge_from)
IncludeOrders(o) ==
  [ord |-> o, skip_ord |-> o, from_ord |-> o, from_skip_ord |-> o,
   rename_ord |-> o, ord2 |-> o, skip_ord2 |-> o]

all_serials(d) ==
  {d.stages[id]["_serial"] : id \in {x \in DOMAIN d.stages : "_serial" \in DOMAIN d.stages[x]}}
    \cup {d.info["_serial"]}

\* "if len(self.include) is 0 and self.ckey_template"
WrapTemplate(d) ==
  IF /\ Len(d.include) = 0
     /\ DOMAIN d.ckey_template # {}
     /\ (DOMAIN d.ckey_template) \ all_serials(d) # {}
  THEN [d EXCEPT !.ckey_template =
          [x \in {IF StagesEmpty(d) THEN "_nostage_" \o d.info["_serial"]
                  ELSE d.info["_serial"]} |-> d.ckey_template]]
  ELSE d

\* "Stages must be in dict format"
IncludeStages(d, o) ==
  IF d.is_list /\ d.stages_list # <<>> THEN process_stages(d, o, o) ELSE d

RECURSIVE process_includes(_, _, _, _)

\* "Add to included line for reference"
IncludeAdded(merged, child) ==
  IF merged.err # "" THEN merged
  ELSE [merged EXCEPT !.included = @ \cup child.included]

\* "Tie the last stage of the current file to the first stage of the next
\* file": last and first are get_ordered_stages() of self and of merge_from
SpliceTied(d, last, first) ==
  IF last.err # "" THEN [d EXCEPT !.err = last.err]
  ELSE IF first.err # "" THEN [d EXCEPT !.err = first.err]
  ELSE IF last.ordered = <<>> \/ first.ordered = <<>> THEN d
  ELSE [d EXCEPT !.stages = Put(d.stages, last.ordered[Len(last.ordered)],
                                Put(d.stages[last.ordered[Len(last.ordered)]],
                                    "next_default", first.ordered[1]))]

\* "Set flow control for this set of stages"
Spliced(d, child, perm) ==
  IF child.serial \in d.include_options
  THEN SpliceTied(d, get_ordered_stages(d, OrderOf(perm, DOMAIN d.stages)),
                  get_ordered_stages(child, OrderOf(perm, DOMAIN child.stages)))
  ELSE d

\* self.merge(merge_from) and what follows it, spliced being self after the
\* flow control is set
IncludeSpliced(spliced, child, perm) ==
  IF spliced.err # "" THEN spliced
  ELSE IncludeAdded(merge(spliced, child,
                          IncludeOrders(OrderOf(perm, MergeKeys(spliced, child)))),
                    child)

\* the body of the loop from "Set flow control for this set of stages" on;
\* listed is self with the path in included, child the document
\* process_includes left
IncludeMerged(listed, child, perm) ==
  IF child.err # "" THEN [listed EXCEPT !.err = child.err]
  ELSE IncludeSpliced(Spliced(listed, child, perm), child, perm)

\* the body of the loop once merge_from.process_stages() left staged
IncludeStaged(d, file, staged, depth, files, perm) ==
  IF staged.err # "" THEN [d EXCEPT !.err = staged.err]
  ELSE IncludeMerged([d EXCEPT !.included = @ \cup {file}],
                     process_includes(staged, depth + 1, files, perm), perm)

\* the body of the loop from merge_from.process_stages() on; built is
\* merge_from as constructed
IncludeBuilt(d, file, built, depth, files, perm) ==
  IF built.err # "" THEN [d EXCEPT !.err = built.err]
  ELSE IncludeStaged(d, file,
                     process_stages(built, OrderOf(perm, StageKeys(built)),
                                    OrderOf(perm, StageKeys(built))),
                     depth, files, perm)

\* "Handle simple include format"
SimpleHandled(entry) == [id |-> entry.id, simple |-> FALSE, serial |-> entry.serial]

\* the loop over self.include, from entry n on
RECURSIVE IncludeLoop(_, _, _, _, _)
IncludeLoop(d, n, depth, files, perm) ==
  IF d.err # "" \/ n > Len(d.include) THEN d
  ELSE IncludeLoop(IncludeBuilt([d EXCEPT !.include = [i \in 1..Len(d.include) |->
                                                         IF i = n THEN SimpleHandled(d.include[i])
                                                         ELSE d.include[i]]],
                                d.include[n].id,
                                ConstructFile(d.include[n].id, files[d.include[n].id],
                                              d.include[n].serial,
                                              FreshSerial(d, n, d.include[n].id)),
                                depth, files, perm),
                   n + 1, depth, files, perm)

\* "Empty include line to prevent future merging"
IncludeDone(r) == IF r.err # "" THEN r ELSE [r EXCEPT !.include = <<>>]

\* process_includes() after the depth check
IncludeAll(s, depth, files, perm) ==
  IF s.err # "" THEN s
  ELSE IncludeDone(IncludeLoop(s, 1, depth, files, perm))

\* process_includes(depth) on document d
process_includes(d, depth, files, perm) ==
  IF d.max_depth # -1 /\ depth >= d.max_depth THEN d
  ELSE IncludeAll(IncludeStages(WrapTemplate(d), OrderOf(perm, StageKeys(WrapTemplate(d)))),
                  depth, files, perm)

(***************************************************************************)
(* JCF.process, on a document that declares no SUT and whose strings hold  *)
(* no ${...} token but the default target.                                 *)
(***************************************************************************)
\* process_system_vars() without SUTs: "${sut}" is replaced by the text
\* "(no suts defined)" in every string of the stages
process_system_vars(d) ==
  [d EXCEPT !.stages =
     [id \in DOMAIN d.stages |->
        IF Get(d.stages[id], "target", "") = "${sut}"
        THEN Put(d.stages[id], "target", "(no suts defined)")
        ELSE d.stages[id]]]

\* process_file_vars(): interpolate_variables leaves token-free strings as they are
process_file_vars(d) == d

\* process() from process_system_vars on; p is the document the second
\* process_stages left
ProcessVars(p) ==
  IF p.err # "" THEN p ELSE process_file_vars(process_system_vars(p))

\* process() from process_includes on; p is the document the first
\* process_stages left, files the include files there are
ProcessIncluded(p, files, ord, skip_ord) ==
  IF p.err # "" THEN p
  ELSE ProcessVars(process_stages(process_includes(p, 0, files, ord), ord, skip_ord))

\* process(): ord and skip_ord are the dict iteration orders of the first
\* process_stages, ord2 and skip_ord2 those of the second
process(d, ord, skip_ord, ord2, skip_ord2) ==
  ProcessIncluded(process_stages(d, ord, skip_ord), EmptyDict, ord2, skip_ord2)

(***************************************************************************)
(* Ckey Store: JCF.get_ckey, get_global_ckey, get_local_ckey, get_scope.   *)
(*   - The values of the ckey and local sections are numbers or null; 0 is *)
(*     the value that is false in Python. A result or a default is a       *)
(*     value, None or a dict of values.                                    *)
(*   - A scope argument of "" stands for scope=None, NoKey for key=None.   *)
(***************************************************************************)
Val(n) == [kind |-> "val", v |-> n, m |-> EmptyDict]

PyNone == [kind |-> "none", v |-> 0, m |-> EmptyDict]

Map(m) == [kind |-> "map", v |-> 0, m |-> m]

NoKey == ""

\* the JSON null as a value of the ckey and local sections
Null == -1

\* the Python value of the stored value n
Stored(n) == IF n = Null THEN PyNone ELSE Val(n)

\* the truth value Python gives x
Truthy(x) ==
  CASE x.kind = "val" -> x.v # 0
    [] x.kind = "map" -> DOMAIN x.m # {}
    [] OTHER -> FALSE

\* get_global_ckey(key, default)
get_global_ckey(d, key, default) ==
  IF key # NoKey
  THEN IF key \in DOMAIN d.ckey THEN Stored(d.ckey[key]) ELSE default
  ELSE Map(d.ckey)

\* get_scope(key): "the first scope that contains a given key", in the
\* iteration order ord of self.local; "" for None
RECURSIVE get_scope(_, _, _, _)
get_scope(d, key, ord, i) ==
  IF i > Len(ord) THEN ""
  ELSE IF key \in DOMAIN d.local[ord[i]] THEN ord[i]
  ELSE get_scope(d, key, ord, i + 1)

\* get_local_ckey from "if key is not None" on
LocalOf(d, key, scope, default) ==
  IF key # NoKey
  THEN IF key \in DOMAIN d.local[scope] THEN Stored(d.local[scope][key]) ELSE default
  ELSE Map(d.local[scope])

\* get_local_ckey(key, scope, default): [ret, err]
get_local_ckey(d, key, scope, default, ord) ==
  IF (IF scope = "" THEN d.serial ELSE scope) = "*"
  THEN IF key = NoKey THEN [ret |-> PyNone, err |-> "ValueError"]
       ELSE IF get_scope(d, key, ord, 1) = "" THEN [ret |-> default, err |-> ""]
       ELSE [ret |-> LocalOf(d, key, get_scope(d, key, ord, 1), default), err |-> ""]
  ELSE IF (IF scope = "" THEN d.serial ELSE scope) \notin DOMAIN d.local
  THEN [ret |-> default, err |-> ""]
  ELSE [ret |-> LocalOf(d, key, IF scope = "" THEN d.serial ELSE scope, default),
        err |-> ""]

\* get_ckey after its two lookups gave r and g: "return r or g" with a
\* key, the merge of the two dicts without; g.update(r) needs a dict
CkeyOf(key, r, g) ==
  IF key # NoKey THEN [ret |-> IF Truthy(r) THEN r ELSE g, err |-> ""]
  ELSE IF r.kind = "none" THEN [ret |-> g, err |-> ""]
  ELSE IF Truthy(g)
  THEN IF r.kind = "map" THEN [ret |-> Map(Update(g.m, r.m)), err |-> ""]
       ELSE [ret |-> PyNone, err |-> "TypeError"]
  ELSE [ret |-> r, err |-> ""]

\* get_ckey(key, scope, default): [ret, err]
get_ckey(d, key, scope, default, ord) ==
  IF get_local_ckey(d, key, scope, default, ord).err # ""
  THEN get_local_ckey(d, key, scope, default, ord)
  ELSE CkeyOf(key, get_local_ckey(d, key, scope, default, ord).ret,
              get_global_ckey(d, key, default))

(***************************************************************************)
(* Variable Interpolator: JCF._interpolate_string with no scope and no     *)
(* filter, on tokens of the form ${ckey.<key>}.                            *)
(*   - A string is a sequence of parts: a literal text, a token            *)
(*     ${ckey.<key>}, or a neutralised token ${}{ckey.<key>}; adjacent     *)
(*     literals are one literal. The literals hold no "$".                 *)
(*   - A value of the ckey section is a string or a number.                *)
(***************************************************************************)
Lit(text) == [kind |-> "lit", text |-> text, key |-> 0]

Tok(key) == [kind |-> "tok", text |-> "", key |-> key]

\* replaceme.replace("${", "${}{")
Neutralised(key) == [kind |-> "esc", text |-> "", key |-> key]

StringValue(parts) == [str |-> TRUE, parts |-> parts, num |-> 0]

NumberValue(num) == [str |-> FALSE, parts |-> <<>>, num |-> num]

\* the parts of a text: adjacent literals run together
RECURSIVE Text(_)
Text(parts) ==
  IF Len(parts) <= 1 THEN parts
  ELSE IF parts[1].kind = "lit" /\ parts[2].kind = "lit"
  THEN Text(<<Lit(parts[1].text \o parts[2].text)>> \o SubSeq(parts, 3, Len(parts)))
  ELSE <<parts[1]>> \o Text(Tail(parts))

\* the loop limit of _interpolate_string
LoopCap == 100

\* re.findall(var_re, string): the keys of the tokens, in order
FindAll(string) ==
  [i \in 1..Len(SelectSeq(string, LAMBDA part : part.kind = "tok")) |->
     SelectSeq(string, LAMBDA part : part.kind = "tok")[i].key]

\* string.replace(replaceme, value), replaceme being the token of key
RECURSIVE ReplaceParts(_, _, _)
ReplaceParts(string, key, value) ==
  IF string = <<>> THEN <<>>
  ELSE (IF string[1].kind = "tok" /\ string[1].key = key THEN value ELSE <<string[1]>>)
       \o ReplaceParts(Tail(string), key, value)

Replace(string, key, value) == Text(ReplaceParts(string, key, value))

\* string.replace("${}", "$")
Revert(string) ==
  [i \in 1..Len(string) |->
     IF string[i].kind = "esc" THEN Tok(string[i].key) ELSE string[i]]

\* the members of section_members the model holds
section_members ==
  {"info", "init_stage", "include", "included", "include_options", "local", "stages", "ckey",
   "ckey_template"}

\* getattr(self, s), in the form of the JSON that JCF.__init__ reads
SectionData(d, s) ==
  CASE s = "init_stage" -> d.init_stage
    [] s = "stages" -> [is_list |-> d.is_list, list |-> d.stages_list, dict |-> d.stages]
    [] OTHER -> d[s]

\* "if data"
SectionSet(d, s) ==
  CASE s = "init_stage" -> d.init_stage # None
    [] s = "stages" -> ~StagesEmpty(d)
    [] s = "include" -> d.include # <<>>
    [] s = "included" -> d.included # {}
    [] s = "include_options" -> d.include_options # {}
    [] OTHER -> DOMAIN d[s] # {}

\* self.get_dict(): the non-empty sections
get_dict(d) == [s \in {x \in section_members : SectionSet(d, x)} |-> SectionData(d, s)]

\* eval("obj_data" + key_string) succeeds
Resolves(obj_data, key) ==
  "ckey" \in DOMAIN obj_data /\ key \in DOMAIN obj_data["ckey"]

\* a match whose token stays as it is, recorded as an interpolation error
ReplaceMatchUnresolved(acc, key, obj_data) ==
  [acc EXCEPT !.errors = Append(@, Tok(key)),
              !.string = Replace(acc.string, key, <<Neutralised(key)>>)]

\* the body of `for replaceme, key in matches` for a key not in dups.
\* acc = [string, errors, done, ret, err, loops]
ReplaceMatch(acc, key, obj_data) ==
  IF Resolves(obj_data, key)
  THEN IF ~obj_data["ckey"][key].str /\ acc.string = <<Tok(key)>>
       THEN [acc EXCEPT !.done = TRUE, !.ret = obj_data["ckey"][key]]
       ELSE IF ~obj_data["ckey"][key].str
       \* str.replace with a new value that is no string
       THEN [acc EXCEPT !.err = "TypeError"]
       ELSE [acc EXCEPT !.string = Replace(acc.string, key, obj_data["ckey"][key].parts)]
  ELSE [acc EXCEPT !.errors = Append(@, Tok(key)),
                   !.string = Replace(acc.string, key, <<Neutralised(key)>>)]

\* `for replaceme, key in matches`, from match i on
RECURSIVE ReplaceMatches(_, _, _, _)
ReplaceMatches(acc, matches, i, obj_data) ==
  IF i > Len(matches) \/ acc.done \/ acc.err # "" THEN acc
  ELSE IF \E j \in 1..(i - 1) : matches[j] = matches[i]
  THEN ReplaceMatches(acc, matches, i + 1, obj_data)
  ELSE ReplaceMatches(ReplaceMatch(acc, matches[i], obj_data), matches, i + 1, obj_data)

\* one iteration of `while True`, acc.loops iterations having substituted;
\* the iteration that finds no match returns the reverted string
InterpolateLoop(acc, obj_data) ==
  IF FindAll(acc.string) = <<>>
  THEN [acc EXCEPT !.done = TRUE, !.ret = StringValue(Revert(acc.string))]
  ELSE IF acc.loops + 1 >= LoopCap
  THEN [acc EXCEPT !.loops = @ + 1, !.err = "ValueError"]
  ELSE ReplaceMatches([acc EXCEPT !.loops = @ + 1], FindAll(acc.string), 1, obj_data)

\* _interpolate_string(string) when it enters `while True`: acc.errors is
\* self.interpolation_errors
interpolate_string(d, string) ==
  [string |-> string, errors |-> d.interpolation_errors,
   done |-> FALSE, ret |-> StringValue(<<>>), err |-> "", loops |-> 0]

(***************************************************************************)
(* Scoped Interpolator: JCF._interpolate_structure, and _interpolate_string *)
(* with a scope on a string that is one token ${ckey.<key>}, the values    *)
(* of the ckey and local sections holding no token.                        *)
(*   - A structure is a string (a token), a value that is no string, a map *)
(*     with or without a _serial entry (serial = "" without) or a list;    *)
(*     the items of a map are its further values. An interpolated token    *)
(*     is a value.                                                         *)
(*   - ord is the iteration order of self.local, read by get_scope.        *)
(***************************************************************************)
TokenString(key) == [kind |-> "str", key |-> key, val |-> PyNone, serial |-> "", items |-> <<>>]

ValueOf(v) == [kind |-> "value", key |-> NoKey, val |-> v, serial |-> "", items |-> <<>>]

MapOf(serial, items) ==
  [kind |-> "map", key |-> NoKey, val |-> PyNone, serial |-> serial, items |-> items]

ListOf(items) ==
  [kind |-> "list", key |-> NoKey, val |-> PyNone, serial |-> "", items |-> items]

\* `if scope == "*": scope = self.get_scope(k)`
StarScope(d, key, scope, ord) == IF scope = "*" THEN get_scope(d, key, ord, 1) ELSE scope

\* "Handle local variables (ckeys only) by redirecting interpolation to
\* local section if the given ckey is found there"
Redirected(d, key, scope, ord) ==
  /\ scope # ""
  /\ get_local_ckey(d, key, StarScope(d, key, scope, ord), PyNone, ord).ret # PyNone

\* the token string once its key evaluated or failed to: the value, or the
\* string itself with the token in interpolation_errors
TokenLookedUp(d, key, found, value) ==
  IF found THEN [d |-> d, ret |-> ValueOf(value)]
  ELSE [d |-> [d EXCEPT !.interpolation_errors = Append(@, Tok(key))],
        ret |-> TokenString(key)]

\* _interpolate_string("${ckey.<key>}", scope)
interpolate_token(d, key, scope, ord) ==
  IF Redirected(d, key, scope, ord)
  THEN TokenLookedUp(d, key, TRUE, Stored(d.local[StarScope(d, key, scope, ord)][key]))
  ELSE TokenLookedUp(d, key, key \in DOMAIN d.ckey,
                     IF key \in DOMAIN d.ckey THEN Stored(d.ckey[key]) ELSE PyNone)

RECURSIVE interpolate_structure(_, _, _, _)

\* structure[k] = self._interpolate_structure(structure[k], scope, filter)
ItemDone(acc, item) == [d |-> item.d, ret |-> Append(acc.ret, item.ret)]

\* the map or list with the items its loop left
Rebuilt(structure, acc) == [d |-> acc.d, ret |-> [structure EXCEPT !.items = acc.ret]]

\* the loops over structure.keys() and range(len(structure)), from item i
\* on; acc = [d, ret], ret holding the items interpolated so far
RECURSIVE InterpolateItems(_, _, _, _, _)
InterpolateItems(acc, items, i, scope, ord) ==
  IF i > Len(items) THEN acc
  ELSE InterpolateItems(ItemDone(acc, interpolate_structure(acc.d, items[i], scope, ord)),
                        items, i + 1, scope, ord)

\* _interpolate_structure(structure, scope): [d, ret]
interpolate_structure(d, structure, scope, ord) ==
  CASE structure.kind = "str" -> interpolate_token(d, structure.key, scope, ord)
    [] structure.kind = "map" ->
         Rebuilt(structure,
                 InterpolateItems([d |-> d, ret |-> <<>>], structure.items, 1,
                                  IF structure.serial # "" THEN structure.serial ELSE scope,
                                  ord))
    [] structure.kind = "list" ->
         Rebuilt(structure,
                 InterpolateItems([d |-> d, ret |-> <<>>], structure.items, 1, scope, ord))
    [] OTHER -> [d |-> d, ret |-> structure]

(***************************************************************************)
(* State.                                                                  *)
(*   self : the document (the JCF object) the operations act on            *)
(*   call : the last operation: its name, the document before it (pre),    *)
(*          its arguments and result, and the number of calls made         *)
(***************************************************************************)
VARIABLES self, call

vars == <<self, call>>

Returned(d) == d.err = ""

\* the iteration orders of a dict with the keys `keys` that differ in the
\* relative order of the keys in `relevant`
Orders(keys, relevant) ==
  {p \o SetToSeq(keys \ relevant) : p \in Perms(relevant \cap keys)}

\* The classification loop of process_stages reads the order of a dict only
\* through the order in which it appends to implicit_order_stages and
\* explicit_order_stages, i.e. the order of the stages without next_default
\* and next_pass; the list form is iterated by position.
ClassifyOrders(d) ==
  IF d.is_list THEN {<<>>}
  ELSE Orders(DOMAIN d.stages,
              {id \in DOMAIN d.stages :
                 {"next_default", "next_pass"} \cap DOMAIN d.stages[id] = {}})

\* An iteration of skip_stages writes the stages with a flow control naming a
\* member of stage_list and reads these and the stages they name: only
\* the relative order of the stages it writes can change what it reads.
SkipOrders(d, stage_list) ==
  Orders(DOMAIN d.stages,
         {id \in DOMAIN d.stages :
            \E i \in 1..Len(flow_controls) :
              /\ flow_controls[i] \in DOMAIN d.stages[id]
              /\ d.stages[id][flow_controls[i]] \in stage_list})

(***************************************************************************)
(* Bounded raw documents for the stage-flow specification: n stages named  *)
(* BaseNames[1..n], in list or dict form, either plain or chained by       *)
(* next_default in list order, with k further settings in the whole        *)
(* document, for every n >= 1 and k with n + k <= MaxSize.                 *)
(***************************************************************************)
MaxSize == 5

MaxOrder == 2

MaxCalls == 2

BaseNames == <<"a", "b", "c", "d", "e", "f">>

StageId(i) == Name(BaseNames[i])

StageFields == {"next_default", "next_pass", "order", "disable"}

MaxInstance == 2

SingletonGroups == <<"g", "G">>

SingletonChoices == <<"first", "last", "LAST">>

SingletonFields == {"singleton_group", "singleton_choice", "instance", "next_fail"}

Slots(n, fields) == ((1..n) \X fields) \cup {<<0, "init_stage">>}

\* the number of values of a setting; a next_fail may also name _quit
NumVals(slot, n) ==
  CASE slot[2] \in {"next_default", "next_pass", "init_stage"} -> n
    [] slot[2] = "next_fail" -> n + 1
    [] slot[2] = "order" -> MaxOrder
    [] slot[2] = "instance" -> MaxInstance
    [] slot[2] = "singleton_group" -> Len(SingletonGroups)
    [] slot[2] = "singleton_choice" -> Len(SingletonChoices)
    [] slot[2] \in {"name", "desc"} -> 2
    [] OTHER -> 1

\* value number k of a setting of a document with n stages
Decode(field, k, n) ==
  CASE field \in {"next_default", "next_pass", "init_stage"} -> StageId(k)
    [] field = "next_fail" -> IF k > n THEN QUIT ELSE StageId(k)
    [] field \in {"order", "instance"} -> k
    [] field = "singleton_group" -> SingletonGroups[k]
    [] field = "singleton_choice" -> SingletonChoices[k]
    [] OTHER -> TRUE

MaxNumVals(n) ==
  CHOOSE m \in {n + 1, MaxOrder, MaxInstance, Len(SingletonGroups), Len(SingletonChoices)} :
    \A m2 \in {n + 1, MaxOrder, MaxInstance, Len(SingletonGroups), Len(SingletonChoices)} :
      m2 <= m

\* the subsets of S with at most k elements
RECURSIVE SubsetsUpTo(_, _)
SubsetsUpTo(S, k) ==
  IF k = 0 \/ S = {} THEN {{}}
  ELSE LET x == CHOOSE y \in S : TRUE
       IN SubsetsUpTo(S \ {x}, k) \cup {T \cup {x} : T \in SubsetsUpTo(S \ {x}, k - 1)}

\* every choice of at most k settings, each with one of its values
Assignments(n, k, fields) ==
  UNION {{f \in [S -> 1..MaxNumVals(n)] :
            \A s \in S : f[s] <= NumVals(s, n)} :
         S \in SubsetsUpTo(Slots(n, fields), k)}

\* stage i of n: the settings f chooses for it. In a chained document every
\* stage but the last also names the next one as its next_default; in a
\* grouped document the first two stages are of the singleton group "g"
RawStage(i, n, f, shape) ==
  LET chosen == {fl \in StageFields \cup SingletonFields : <<i, fl>> \in DOMAIN f}
      chain == IF shape.chained /\ i < n THEN {"next_default"} ELSE {}
      group == IF shape.grouped /\ i <= 2 THEN {"singleton_group"} ELSE {}
  IN [field \in chosen \cup chain \cup group |->
        IF field \in chosen THEN Decode(field, f[<<i, field>>], n)
        ELSE IF field = "next_default" THEN StageId(i + 1)
        ELSE SingletonGroups[1]]

RawDocument(n, f, is_list, shape) ==
  LET stages == [is_list |-> is_list,
                 list |-> IF is_list
                          THEN [i \in 1..n |->
                                  [key |-> StageId(i), val |-> RawStage(i, n, f, shape)]]
                          ELSE <<>>,
                 dict |-> IF is_list THEN EmptyDict
                          ELSE [id \in {StageId(i) : i \in 1..n} |->
                                  RawStage(CHOOSE i \in 1..n : StageId(i) = id, n, f, shape)]]
      base == [x \in {"stages"} |-> stages]
  IN IF <<0, "init_stage">> \in DOMAIN f
     THEN Put(base, "init_stage", Decode("init_stage", f[<<0, "init_stage">>], n))
     ELSE base

GeneratedSerial == "cirrus_job_1000000000"

NoCall == [op |-> "init", pre |-> EmptyDict, args |-> EmptyDict, n |-> 0]

InitStages ==
  \E n \in 1..MaxSize, is_list \in BOOLEAN, chained \in BOOLEAN :
    \E f \in Assignments(n, MaxSize - n, StageFields) :
      /\ self = Construct(RawDocument(n, f, is_list,
                                      [chained |-> chained, grouped |-> FALSE]),
                          DefaultMaxDepth, "", GeneratedSerial)
      /\ call = NoCall

CanCall == Returned(self) /\ call.n < MaxCalls

ProcessStages ==
  /\ CanCall
  /\ \E ord \in ClassifyOrders(self) :
       \E skip_ord \in SkipOrders(link_stages(self, ord),
                                 DisabledStages(link_stages(self, ord).stages)) :
         /\ self' = process_stages(self, ord, skip_ord)
         /\ call' = [op |-> "process_stages", pre |-> self,
                     args |-> [ord |-> ord, skip_ord |-> skip_ord], n |-> call.n + 1]

NextStages == ProcessStages

SpecStages == InitStages /\ [][NextStages]_vars

(***************************************************************************)
(* Duplicate-name specification: list-form documents of n <= MaxListLen    *)
(* stages whose ids are any of IdPool, equal ids and ids that end in _2    *)
(* and _3 included, with at most MaxListSettings further settings,         *)
(* compiled by process_stages.                                             *)
(***************************************************************************)
MaxListLen == 3

MaxListSettings == 1

IdPool == {Name("a"), Suffixed(Name("a"), 2), Suffixed(Name("a"), 3),
           Suffixed(Suffixed(Name("a"), 2), 2), Name("b")}

\* the list form of the stages ids[1..n] with the settings f
NamedList(ids, f) ==
  [x \in {"stages"} |->
     [is_list |-> TRUE,
      list |-> [i \in 1..Len(ids) |->
                  [key |-> ids[i],
                   val |-> RawStage(i, Len(ids), f, [chained |-> FALSE, grouped |-> FALSE])]],
      dict |-> EmptyDict]]

InitNames ==
  \E n \in 1..MaxListLen :
    \E ids \in [1..n -> IdPool], f \in Assignments(n, MaxListSettings, StageFields) :
      /\ <<0, "init_stage">> \notin DOMAIN f
      /\ self = Construct(NamedList(ids, f), DefaultMaxDepth, "", GeneratedSerial)
      /\ call = NoCall

SpecNames == InitNames /\ [][NextStages]_vars

(***************************************************************************)
(* Entry specification: the documents of the stage-flow specification of   *)
(* n stages and k settings, in which at most MaxSpecial next_default or    *)
(* next_pass fields more hold one of the special targets _quit and _next,  *)
(* for n + k + the number of special targets <= MaxEntrySize; compiled by  *)
(* process_stages.                                                         *)
(***************************************************************************)
MaxEntrySize == 4

MaxSpecial == 1

\* the special targets a flow control can hold: _next stands for the
\* next_default of the stage
SpecialTargets(field) == IF field = "next_default" THEN {QUIT} ELSE {QUIT, NEXT}

\* every choice of at most k flow controls of the n stages, each with a
\* special target
SpecialAssignments(n, k) ==
  UNION {{q \in [S -> {QUIT, NEXT}] : \A slot \in S : q[slot] \in SpecialTargets(slot[2])} :
           S \in SubsetsUpTo((1..n) \X {"next_default", "next_pass"}, k)}

\* stage i with the special targets q chooses for it
SpecialStage(v, i, q) ==
  [field \in (DOMAIN v) \cup {fl \in {"next_default", "next_pass"} : <<i, fl>> \in DOMAIN q} |->
     IF <<i, field>> \in DOMAIN q THEN q[<<i, field>>] ELSE v[field]]

SpecialDocument(n, f, q, is_list, chained) ==
  LET raw == RawDocument(n, f, is_list, [chained |-> chained, grouped |-> FALSE])
      stages == [is_list |-> is_list,
                 list |-> [i \in 1..Len(raw["stages"].list) |->
                             [key |-> raw["stages"].list[i].key,
                              val |-> SpecialStage(raw["stages"].list[i].val, i, q)]],
                 dict |-> [id \in DOMAIN raw["stages"].dict |->
                             SpecialStage(raw["stages"].dict[id],
                                          CHOOSE i \in 1..n : StageId(i) = id, q)]]
  IN Put(raw, "stages", stages)

InitEntry ==
  \E n \in 1..MaxEntrySize, is_list \in BOOLEAN, chained \in BOOLEAN :
    \E f \in Assignments(n, MaxEntrySize - n, StageFields) :
      \E q \in SpecialAssignments(n, IF MaxEntrySize - n - Cardinality(DOMAIN f) < MaxSpecial
                                     THEN MaxEntrySize - n - Cardinality(DOMAIN f)
                                     ELSE MaxSpecial) :
        /\ self = Construct(SpecialDocument(n, f, q, is_list, chained),
                            DefaultMaxDepth, "", GeneratedSerial)
        /\ call = NoCall

SpecEntry == InitEntry /\ [][NextStages]_vars

(***************************************************************************)
(* Singleton specification: chained documents of n stages with k further   *)
(* singleton settings, n + k <= MaxSingletonSize, compiled by              *)
(* process_stages, process and process_singletons in any order.            *)
(***************************************************************************)
MaxSingletonSize == 4

InitSingleton ==
  \E n \in 1..MaxSingletonSize, is_list \in BOOLEAN, grouped \in BOOLEAN :
    \E f \in Assignments(n, MaxSingletonSize - n, SingletonFields) :
      /\ grouped => n >= 2
      /\ self = Construct(RawDocument(n, f, is_list,
                                      [chained |-> TRUE, grouped |-> grouped]),
                          DefaultMaxDepth, "", GeneratedSerial)
      /\ call = NoCall

\* the iteration orders of the stages that skip_stages can tell apart when
\* process_stages has linked the document as l
SkipOrdersOf(l) == SkipOrders(l, DisabledStages(l.stages))

\* the iteration orders of self.stages that process_singletons can tell
\* apart: those of the group members that declare a singleton_choice
ChoiceOrders(d) ==
  Orders(DOMAIN d.stages,
         {id \in DOMAIN d.stages :
            IsSingleton(d.stages[id]) /\ "singleton_choice" \in DOMAIN d.stages[id]})

\* the iteration orders of the dicts singletons[singleton_id]
GroupOrders(d) ==
  Orders(DOMAIN d.stages, {id \in DOMAIN d.stages : IsSingleton(d.stages[id])})

ProcessSingletons ==
  /\ CanCall
  /\ \E ord \in ChoiceOrders(self), group_ord \in GroupOrders(self) :
       \E skip_ord \in SkipOrders(self, IF \E id \in DOMAIN self.stages :
                                            /\ IsSingleton(self.stages[id])
                                            /\ "instance" \notin DOMAIN self.stages[id]
                                       THEN {}
                                       ELSE StagesToRemove(self.stages, ord, group_ord)) :
         /\ self' = process_singletons(self, ord, group_ord, skip_ord)
         /\ call' = [op |-> "process_singletons", pre |-> self,
                     args |-> [ord |-> ord, group_ord |-> group_ord,
                               skip_ord |-> skip_ord],
                     n |-> call.n + 1]

\* the second process_stages of process(), p being the document the first left
ProcessSecond(p, ord, skip_ord) ==
  \E ord2 \in (IF p.err = "" THEN ClassifyOrders(p) ELSE {<<>>}) :
    \E skip_ord2 \in (IF p.err = "" THEN SkipOrdersOf(link_stages(p, ord2)) ELSE {<<>>}) :
      /\ self' = process(self, ord, skip_ord, ord2, skip_ord2)
      /\ call' = [op |-> "process", pre |-> self,
                  args |-> [ord |-> ord, skip_ord |-> skip_ord,
                            ord2 |-> ord2, skip_ord2 |-> skip_ord2],
                  n |-> call.n + 1]

Process ==
  /\ CanCall
  /\ \E ord \in ClassifyOrders(self) :
       \E skip_ord \in SkipOrdersOf(link_stages(self, ord)) :
         ProcessSecond(process_stages(self, ord, skip_ord), ord, skip_ord)

NextSingleton == ProcessStages \/ ProcessSingletons \/ Process

SpecSingleton == InitSingleton /\ [][NextSingleton]_vars

(***************************************************************************)
(* Merge specification: a document of n stages with k settings, among      *)
(* them the keys of its info section, into which further documents of the  *)
(* same family are merged, the sizes n + k of all of them adding up to at  *)
(* most MaxMergeSize. The stages of every document are named               *)
(* BaseNames[1..n], so that the stages of two documents collide.           *)
(***************************************************************************)
MaxMergeSize == 4

MergeFields == {"next_default", "next_pass", "next_fail", "disable"}

InfoFields == {"cirrus_job_id", "name", "desc", "_serial", "cirrus_ip"}

\* value number k of the info key `field` of the document `tag`
InfoValue(tag, field, k) ==
  IF k = 2 THEN "" ELSE field \o "_" \o tag

MergeAssignments(n, k) ==
  UNION {{f \in [S -> 1..MaxNumVals(n)] :
            \A s \in S : f[s] <= NumVals(s, n)} :
         S \in SubsetsUpTo(Slots(n, MergeFields) \cup ({0} \X InfoFields), k)}

MergeRaw(n, f, is_list, chained, tag) ==
  LET base == RawDocument(n, f, is_list, [chained |-> chained, grouped |-> FALSE])
      info == [field \in {x \in InfoFields : <<0, x>> \in DOMAIN f} |->
                 InfoValue(tag, field, f[<<0, field>>])]
  IN IF DOMAIN info = {} THEN base ELSE Put(base, "info", info)

\* the documents of size at most `size` that are tagged `tag`
MergeDocuments(size, tag, generated) ==
  UNION {UNION {{[doc |-> Construct(MergeRaw(n, f, is_list, chained, tag),
                                    DefaultMaxDepth, "", generated),
                  size |-> n + Cardinality(DOMAIN f)] :
                   is_list \in BOOLEAN, chained \in (IF n >= 2 THEN BOOLEAN ELSE {FALSE})} :
                f \in MergeAssignments(n, size - n)} :
         n \in 0..size}

IncomingSerial == "cirrus_job_2000000000"

InitMerge ==
  \E m \in MergeDocuments(MaxMergeSize, "a", GeneratedSerial) :
    /\ self = m.doc
    /\ call = [op |-> "init", pre |-> EmptyDict, args |-> EmptyDict, n |-> 0,
               used |-> m.size]

\* the iteration orders of merge_from_stage_names that the rename loop can
\* tell apart: those of the stages it renames
RenameOrders(s, m) ==
  IF s.err # "" \/ m.err # "" \/ s.is_list \/ m.is_list THEN {<<>>}
  ELSE Orders(DOMAIN m.stages, (DOMAIN m.stages) \cap (DOMAIN s.stages))

ReprocessOrders(r) == IF r.err # "" THEN {<<>>} ELSE ClassifyOrders(r)

ReprocessSkipOrders(r, ord2) ==
  IF r.err # "" THEN {<<>>} ELSE SkipOrdersOf(link_stages(r, ord2))

\* the rename loop and the last process_stages of a merge, s and m being
\* self and merge_from after their process_stages (recorded as the
\* arguments mine and theirs)
MergeSecond(merge_from, size, s, m, o) ==
  \E rename_ord \in RenameOrders(s, m) :
    \E ord2 \in ReprocessOrders(MergeRenamed(s, m, rename_ord)) :
      \E skip_ord2 \in ReprocessSkipOrders(MergeRenamed(s, m, rename_ord), ord2) :
        /\ self' = merge(self, merge_from,
                         [ord |-> o.ord, skip_ord |-> o.skip_ord,
                          from_ord |-> o.from_ord, from_skip_ord |-> o.from_skip_ord,
                          rename_ord |-> rename_ord,
                          ord2 |-> ord2, skip_ord2 |-> skip_ord2])
        /\ call' = [op |-> "merge", pre |-> self,
                    args |-> [merge_from |-> merge_from, mine |-> s, theirs |-> m,
                              ord |-> o.ord, skip_ord |-> o.skip_ord,
                              from_ord |-> o.from_ord,
                              from_skip_ord |-> o.from_skip_ord,
                              rename_ord |-> rename_ord,
                              ord2 |-> ord2, skip_ord2 |-> skip_ord2],
                    n |-> call.n + 1,
                    used |-> call.used + size]

MergeFirst(merge_from, size) ==
  \E ord \in ClassifyOrders(self), from_ord \in ClassifyOrders(merge_from) :
    \E skip_ord \in SkipOrdersOf(link_stages(self, ord)),
       from_skip_ord \in SkipOrdersOf(link_stages(merge_from, from_ord)) :
      MergeSecond(merge_from, size,
                  MergeMine(self, merge_from, ord, skip_ord),
                  process_stages(merge_from, from_ord, from_skip_ord),
                  [ord |-> ord, skip_ord |-> skip_ord,
                   from_ord |-> from_ord, from_skip_ord |-> from_skip_ord])

Merge ==
  /\ CanCall
  /\ \E m \in MergeDocuments(MaxMergeSize - call.used, "b", IncomingSerial) :
       MergeFirst(m.doc, m.size)

NextMerge == Merge

SpecMerge == InitMerge /\ [][NextMerge]_vars

(***************************************************************************)
(* Interpolation specification: a document whose ckey section is a chain   *)
(* of n keys 1..n, n <= MaxChain, each key but the last holding a token of *)
(* the next key (after a literal, in a padded chain) and the last a        *)
(* literal, a token of the first key, a token of an undeclared key or a    *)
(* number; and _interpolate_string on every string of at most              *)
(* MaxStringParts literals and tokens, one iteration of its loop at a      *)
(* step.                                                                   *)
(***************************************************************************)
MaxChain == 100

MaxStringParts == 2

\* the key declared nowhere
Missing == 0

ChainEnds == {"literal", "cycle", "missing", "number"}

ChainValue(i, n, padded, end) ==
  IF i < n THEN StringValue(IF padded THEN <<Lit("x"), Tok(i + 1)>> ELSE <<Tok(i + 1)>>)
  ELSE CASE end = "literal" -> StringValue(<<Lit("dog")>>)
         [] end = "cycle" -> StringValue(IF padded THEN <<Lit("x"), Tok(1)>> ELSE <<Tok(1)>>)
         [] end = "missing" -> StringValue(<<Tok(Missing)>>)
         [] OTHER -> NumberValue(5)

ChainDocument(n, padded, end) ==
  [x \in {"ckey"} |-> [i \in 1..n |-> ChainValue(i, n, padded, end)]]

\* the strings of one part more than those of S
Longer(S, atoms) == {Append(string, part) : string \in S, part \in atoms}

RECURSIVE StringsOfLen(_, _)
StringsOfLen(len, atoms) ==
  IF len = 0 THEN {<<>>} ELSE Longer(StringsOfLen(len - 1, atoms), atoms)

Strings(n) ==
  {Text(string) : string \in UNION {StringsOfLen(len, {Lit("x"), Tok(Missing), Tok(1), Tok(n)}) :
                                      len \in 1..MaxStringParts}}

InitInterp ==
  \E n \in 1..MaxChain, padded \in BOOLEAN, end \in ChainEnds :
    /\ self = Construct(ChainDocument(n, padded, end), DefaultMaxDepth, "", GeneratedSerial)
    /\ call = NoCall

\* the call _interpolate_string(string), up to `while True`
InterpolateString ==
  /\ call.n = 0
  /\ \E string \in Strings(Cardinality(DOMAIN self.ckey)) :
       /\ call' = [op |-> "_interpolate_string", pre |-> self,
                   args |-> [string |-> string],
                   acc |-> interpolate_string(self, string), n |-> call.n + 1]
       /\ self' = self

Interpolating == call.op = "_interpolate_string" /\ ~call.acc.done /\ call.acc.err = ""

\* acc is the call after one more iteration of `while True`
Iterated(acc) ==
  /\ call' = [call EXCEPT !.acc = acc]
  /\ self' = [self EXCEPT !.interpolation_errors = acc.errors, !.err = acc.err]

InterpolatePass ==
  /\ Interpolating
  /\ Iterated(InterpolateLoop(call.acc, get_dict(call.pre)))

NextInterp == InterpolateString \/ InterpolatePass

SpecInterp == InitInterp /\ [][NextInterp]_vars

(***************************************************************************)
(* Rewriter specification: dict-form documents of n stages with k flow     *)
(* controls and init_stage settings, n + k <= MaxSkipSize, with the        *)
(* default max_depth or none (-1), on which skip_stages or remove_stages   *)
(* is called with any set of their stage ids.                              *)
(***************************************************************************)
MaxSkipSize == 4

SkipFields == {"next_default", "next_pass", "next_fail"}

InitSkip ==
  \E n \in 1..MaxSkipSize, chained \in BOOLEAN, max_depth \in {DefaultMaxDepth, -1} :
    \E f \in Assignments(n, MaxSkipSize - n, SkipFields) :
      /\ self = Construct(RawDocument(n, f, FALSE, [chained |-> chained, grouped |-> FALSE]),
                          max_depth, "", GeneratedSerial)
      /\ call = NoCall

SkipStages ==
  /\ call.n = 0
  /\ \E stage_list \in SUBSET DOMAIN self.stages :
       \E ord \in SkipOrders(self, stage_list) :
         /\ self' = skip_stages(self, stage_list, ord)
         /\ call' = [op |-> "skip_stages", pre |-> self,
                     args |-> [stage_list |-> stage_list, ord |-> ord], n |-> call.n + 1]

RemoveStages ==
  /\ call.n = 0
  /\ \E stage_list \in SUBSET DOMAIN self.stages :
       \E ord \in SkipOrders(self, stage_list) :
         /\ self' = remove_stages(self, stage_list, ord)
         /\ call' = [op |-> "remove_stages", pre |-> self,
                     args |-> [stage_list |-> stage_list, ord |-> ord], n |-> call.n + 1]

NextSkip == SkipStages \/ RemoveStages

SpecSkip == InitSkip /\ [][NextSkip]_vars

(***************************************************************************)
(* Include specification: a root document and the files "f1".."fMaxFiles". *)
(* File i may include the files after it, so that includes nest up to      *)
(* MaxFiles levels and a file can be reached by several paths; every       *)
(* document has one ckey named after itself and at most MaxStaged of them  *)
(* have a stage (root: a; file i: BaseNames[i + 1]). The root is built     *)
(* with max_depth in -1..MaxFiles - 1 and may hold a ckey_template.        *)
(***************************************************************************)
MaxFiles == 3

MaxStaged == 2

FileNames == <<"f1", "f2", "f3", "f4", "f5">>

\* the elements of a set of numbers in ascending order
RECURSIVE Ascending(_)
Ascending(S) ==
  IF S = {} THEN <<>>
  ELSE LET x == CHOOSE y \in S : \A z \in S : y <= z IN <<x>> \o Ascending(S \ {x})

\* inc[i] are the files document i includes (0 is the root)
IncludeGraphs ==
  {inc \in [0..MaxFiles -> SUBSET (1..MaxFiles)] : \A i \in 0..MaxFiles : \A j \in inc[i] : j > i}

\* the JSON of document i
IncludeRaw(i, name, inc, staged, is_list) ==
  [section \in {"ckey", "include", "stages"} |->
     CASE section = "ckey" -> [k \in {name} |-> name]
       [] section = "include" ->
            [n \in 1..Cardinality(inc[i]) |->
               [id |-> FileNames[Ascending(inc[i])[n]], simple |-> TRUE]]
       [] OTHER ->
            [is_list |-> is_list,
             list |-> IF is_list /\ i \in staged
                      THEN <<[key |-> StageId(i + 1), val |-> EmptyDict]>> ELSE <<>>,
             dict |-> IF ~is_list /\ i \in staged
                      THEN [id \in {StageId(i + 1)} |-> EmptyDict] ELSE EmptyDict]]

IncludeFiles(inc, staged) ==
  [f \in {FileNames[i] : i \in 1..MaxFiles} |->
     IncludeRaw(CHOOSE i \in 1..MaxFiles : FileNames[i] = f, f, inc, staged, FALSE)]

InitIncludes ==
  \E inc \in IncludeGraphs, staged \in SubsetsUpTo(0..MaxFiles, MaxStaged),
     is_list \in BOOLEAN, template \in BOOLEAN, max_depth \in -1..(MaxFiles - 1) :
    /\ is_list => 0 \in staged
    /\ self = Construct(IF template
                        THEN Put(IncludeRaw(0, "root", inc, staged, is_list),
                                 "ckey_template", [k \in {"tpl"} |-> "tpl"])
                        ELSE IncludeRaw(0, "root", inc, staged, is_list),
                        max_depth, "", GeneratedSerial)
    /\ call = [op |-> "init", pre |-> EmptyDict, args |-> EmptyDict, n |-> 0,
               files |-> IncludeFiles(inc, staged)]

\* the ids of the stages of the root and of the files
IncludeStageIds(d, files) ==
  StageKeys(d) \cup UNION {DOMAIN files[f]["stages"].dict : f \in DOMAIN files}

ProcessIncludes ==
  /\ CanCall
  /\ \E perm \in Perms(IncludeStageIds(self, call.files)) :
       /\ self' = process_includes(self, 0, call.files, perm)
       /\ call' = [op |-> "process_includes", pre |-> self, args |-> [perm |-> perm],
                   n |-> call.n + 1, files |-> call.files]

NextIncludes == ProcessIncludes

SpecIncludes == InitIncludes /\ [][NextIncludes]_vars

(***************************************************************************)
(* Serialization specification: documents of n <= MaxRoundSize stages with *)
(* up to MaxRoundSize - n further settings, with or without an include     *)
(* entry (in either format), a ckey and an info section, built with        *)
(* max_depth 0 or the default and compiled by process_stages; get_dict()   *)
(* is then called and a document is constructed from what it returns.      *)
(***************************************************************************)
MaxRoundSize == 3

\* the serial generated for a document constructed from get_dict()
ReloadedSerial == "cirrus_job_3000000000"

\* the raw document with the sections the flags of x ask for
RoundRaw(raw, x) ==
  [section \in (DOMAIN raw)
     \cup (IF x.include = "none" THEN {} ELSE {"include"})
     \cup (IF x.ckey THEN {"ckey"} ELSE {})
     \cup (IF x.info THEN {"info"} ELSE {}) |->
     CASE section = "include" -> <<[id |-> FileNames[1], simple |-> x.include = "simple"]>>
       [] section = "ckey" -> [k \in {"k"} |-> "v"]
       [] section = "info" -> [k \in {"_serial"} |-> IncomingSerial]
       [] OTHER -> raw[section]]

InitRound ==
  \E n \in 1..MaxRoundSize, is_list \in BOOLEAN, chained \in BOOLEAN,
     max_depth \in {0, DefaultMaxDepth},
     x \in [include : {"none", "simple", "dict"}, ckey : BOOLEAN, info : BOOLEAN] :
    \E f \in Assignments(n, MaxRoundSize - n, StageFields) :
      /\ self = Construct(RoundRaw(RawDocument(n, f, is_list,
                                               [chained |-> chained, grouped |-> FALSE]), x),
                          max_depth, "", GeneratedSerial)
      /\ call = [op |-> "init", pre |-> EmptyDict, args |-> EmptyDict, n |-> 0]

\* get_dict(), and JCF(...).get_dict() on what it returned
GetDict ==
  /\ Returned(self)
  /\ call.op # "get_dict"
  /\ self' = self
  /\ call' = [op |-> "get_dict", pre |-> self,
              args |-> [ret |-> get_dict(self),
                        reloaded |-> get_dict(Construct(get_dict(self), DefaultMaxDepth,
                                                        "", ReloadedSerial))],
              n |-> call.n]

NextRound == ProcessStages \/ GetDict

SpecRound == InitRound /\ [][NextRound]_vars

(***************************************************************************)
(* Ckey specification: a document whose own scope, a second scope and      *)
(* global ckey section each hold the key "k" with a value in 0..MaxValue   *)
(* or do not hold it; get_ckey is called with or without the key, for      *)
(* every scope argument and with a default of None or of 0..MaxValue.      *)
(***************************************************************************)
MaxValue == 2

OtherScope == "other"

\* the dict that holds "k" with the value v - 1, the empty dict for v = 0
Keyed(v) == [k \in (IF v = 0 THEN {} ELSE {"k"}) |-> v - 1]

InitCkey ==
  \E mine, other, global \in 0..(MaxValue + 1), has_other \in BOOLEAN :
    /\ has_other \/ other = 0
    /\ self = Construct([section \in {"local_ckey", "ckey"}
                           \cup (IF has_other THEN {"local"} ELSE {}) |->
                           CASE section = "local_ckey" -> Keyed(mine)
                             [] section = "ckey" -> Keyed(global)
                             [] OTHER -> [x \in {OtherScope} |-> Keyed(other)]],
                        DefaultMaxDepth, "", GeneratedSerial)
    /\ call = NoCall

GetCkey ==
  /\ call.n < MaxCalls
  /\ \E key \in {NoKey, "k"}, scope \in {"", self.serial, OtherScope, "*", "none"},
        default \in {PyNone} \cup {Val(v) : v \in 0..MaxValue},
        ord \in Perms(DOMAIN self.local) :
       /\ self' = self
       /\ call' = [op |-> "get_ckey", pre |-> self,
                   args |-> [key |-> key, scope |-> scope, default |-> default, ord |-> ord],
                   ret |-> get_ckey(self, key, scope, default, ord),
                   n |-> call.n + 1]

NextCkey == GetCkey

SpecCkey == InitCkey /\ [][NextCkey]_vars

(***************************************************************************)
(* Construction specification: JCF(json_src, serial=...) on raw documents  *)
(* with or without an info section (empty, with a name, with a _serial),   *)
(* a name, a local section, local ckeys and up to MaxBuildSize stages,     *)
(* with and without a serial from the caller.                              *)
(***************************************************************************)
MaxBuildSize == 2

CallerSerial == "caller_serial"

\* the object before "Import or create serial": the members __init__ sets
\* before it reads json_src
Unbuilt ==
  [serial |-> "", auto_init_stage |-> None, max_depth |-> DefaultMaxDepth, order |-> 1,
   interpolation_errors |-> <<>>, err |-> ""]

InfoChoices ==
  {EmptyDict, [k \in {"name"} |-> "job"], [k \in {"_serial"} |-> IncomingSerial],
   [k \in {"_serial", "name"} |-> IF k = "name" THEN "job" ELSE IncomingSerial]}

LocalChoices ==
  {[x \in {scope} |-> Keyed(1)] : scope \in {IncomingSerial, CallerSerial, OtherScope}}

\* raw with the sections of x that are set
BuildRaw(raw, x) ==
  [section \in (DOMAIN raw) \cup {k \in DOMAIN x : x[k] # {}} |->
     IF section \in DOMAIN x /\ x[section] # {}
     THEN (CHOOSE v \in x[section] : TRUE)
     ELSE raw[section]]

InitBuild ==
  \E n \in 1..MaxBuildSize, is_list \in BOOLEAN, serial \in {"", CallerSerial},
     info \in {{}} \cup {{i} : i \in InfoChoices},
     local \in {{}} \cup {{l} : l \in LocalChoices},
     local_ckey \in {{}, {Keyed(2)}}, name \in {{}, {"old"}} :
    \E f \in Assignments(n, MaxBuildSize - n, StageFields) :
      /\ self = Unbuilt
      /\ call = [op |-> "init", pre |-> EmptyDict,
                 args |-> [json_src |->
                             BuildRaw(RawDocument(n, f, is_list,
                                                   [chained |-> FALSE, grouped |-> FALSE]),
                                      [info |-> info, local |-> local,
                                       local_ckey |-> local_ckey, name |-> name]),
                           serial |-> serial],
                 n |-> 0]

\* JCF(json_src, serial=serial)
Build ==
  /\ call.op = "init"
  /\ self' = Construct(call.args.json_src, DefaultMaxDepth, call.args.serial, GeneratedSerial)
  /\ call' = [op |-> "__init__", pre |-> self, args |-> call.args, n |-> 1]

NextBuild == Build

SpecBuild == InitBuild /\ [][NextBuild]_vars

(***************************************************************************)
(* Chain-merge specification: a document of n <= MaxChainLen stages is     *)
(* compiled and then merges a compiled document of m <= MaxChainLen stages *)
(* with other ids (BaseNames[MaxChainLen + 1 ..]); both are lists or dicts,*)
(* plain or chained by next_default; the first has at most                 *)
(* MaxChainSettings further settings.                                      *)
(***************************************************************************)
MaxChainLen == 3

MaxChainSettings == 1

ChainFields == {"next_pass", "disable"}

\* the id that stands for id in the incoming document
ShiftId(id) ==
  IF \E i \in 1..MaxChainLen : id = StageId(i)
  THEN StageId(MaxChainLen + (CHOOSE i \in 1..MaxChainLen : id = StageId(i)))
  ELSE id

ShiftStage(v) ==
  [field \in DOMAIN v |->
     IF field \in {"next_default", "next_pass"} THEN ShiftId(v[field]) ELSE v[field]]

\* the raw document with every stage id replaced by its ShiftId
ShiftRaw(raw) ==
  [section \in DOMAIN raw |->
     IF section = "init_stage" THEN ShiftId(raw[section])
     ELSE [is_list |-> raw[section].is_list,
           list |-> [i \in 1..Len(raw[section].list) |->
                       [key |-> ShiftId(raw[section].list[i].key),
                        val |-> ShiftStage(raw[section].list[i].val)]],
           dict |-> [id \in {ShiftId(x) : x \in DOMAIN raw[section].dict} |->
                       ShiftStage(raw[section].dict[
                         CHOOSE x \in DOMAIN raw[section].dict : ShiftId(x) = id])]]]

\* the raw documents with at most k further settings
ChainRaws(k) ==
  UNION {{RawDocument(n, f, is_list, [chained |-> chained, grouped |-> FALSE]) :
            is_list \in BOOLEAN, chained \in BOOLEAN,
            f \in Assignments(n, k, ChainFields)} :
         n \in 1..MaxChainLen}

InitChains ==
  \E raw \in ChainRaws(MaxChainSettings) :
    /\ self = Construct(raw, DefaultMaxDepth, "", GeneratedSerial)
    /\ call = NoCall

\* the compiled documents to merge: JCF(raw) after process_stages()
Incoming ==
  UNION {UNION {{process_stages(Construct(ShiftRaw(raw), DefaultMaxDepth, "", IncomingSerial),
                                ord, skip_ord) :
                   skip_ord \in SkipOrdersOf(
                     link_stages(Construct(ShiftRaw(raw), DefaultMaxDepth, "", IncomingSerial),
                                 ord))} :
                ord \in ClassifyOrders(Construct(ShiftRaw(raw), DefaultMaxDepth, "",
                                                 IncomingSerial))} :
         raw \in ChainRaws(0)}

\* merge(merge_from) from the rename loop on; s and m are self and
\* merge_from after their process_stages
MergeChainSecond(merge_from, s, m, o) ==
  \E rename_ord \in RenameOrders(s, m) :
    \E ord2 \in ReprocessOrders(MergeRenamed(s, m, rename_ord)) :
      \E skip_ord2 \in ReprocessSkipOrders(MergeRenamed(s, m, rename_ord), ord2) :
        /\ self' = merge(self, merge_from,
                         [ord |-> o.ord, skip_ord |-> o.skip_ord,
                          from_ord |-> o.from_ord, from_skip_ord |-> o.from_skip_ord,
                          rename_ord |-> rename_ord,
                          ord2 |-> ord2, skip_ord2 |-> skip_ord2])
        /\ call' = [op |-> "merge", pre |-> self,
                    args |-> [merge_from |-> merge_from, ord |-> o.ord,
                              rename_ord |-> rename_ord, ord2 |-> ord2,
                              skip_ord2 |-> skip_ord2],
                    n |-> call.n + 1]

MergeChainFirst(merge_from) ==
  \E ord \in ClassifyOrders(self), from_ord \in ClassifyOrders(merge_from) :
    \E skip_ord \in SkipOrdersOf(link_stages(self, ord)),
       from_skip_ord \in SkipOrdersOf(link_stages(merge_from, from_ord)) :
      MergeChainSecond(merge_from,
                       MergeMine(self, merge_from, ord, skip_ord),
                       process_stages(merge_from, from_ord, from_skip_ord),
                       [ord |-> ord, skip_ord |-> skip_ord,
                        from_ord |-> from_ord, from_skip_ord |-> from_skip_ord])

\* self.merge(merge_from), both compiled
MergeChains ==
  /\ CanCall
  /\ call.op = "process_stages"
  /\ \E merge_from \in {m \in Incoming : Returned(m)} : MergeChainFirst(merge_from)

NextChains == ProcessStages \/ MergeChains

SpecChains == InitChains /\ [][NextChains]_vars

(***************************************************************************)
(* Ordered-stages specification: the documents of the stage-flow           *)
(* specification with at most MaxWalkSize stages and settings, on which    *)
(* process_stages() and get_ordered_stages() are called.                   *)
(***************************************************************************)
MaxWalkSize == 4

InitWalk ==
  \E n \in 1..MaxWalkSize, is_list \in BOOLEAN, chained \in BOOLEAN :
    \E f \in Assignments(n, MaxWalkSize - n, StageFields) :
      /\ self = Construct(RawDocument(n, f, is_list,
                                      [chained |-> chained, grouped |-> FALSE]),
                          DefaultMaxDepth, "", GeneratedSerial)
      /\ call = NoCall

\* the iteration orders of stage_dict the search for the first stage can
\* tell apart: those of the stages of order 1
WalkOrders(d) ==
  Orders(DOMAIN d.stages,
         {id \in DOMAIN d.stages : Get(d.stages[id], "order", 0) = 1})

\* get_ordered_stages() once the stages are a dict (d is self then)
OrderedStages(d, ord, skip_ord) ==
  /\ self' = d
  /\ \E walk_ord \in (IF d.err # "" THEN {<<>>} ELSE WalkOrders(d)) :
       call' = [op |-> "get_ordered_stages", pre |-> self,
                args |-> [ord |-> ord, skip_ord |-> skip_ord, walk_ord |-> walk_ord],
                ret |-> IF d.err # "" THEN [ordered |-> <<>>, other |-> {}, err |-> d.err]
                        ELSE get_ordered_stages(d, walk_ord),
                n |-> call.n]

\* get_ordered_stages(): "Calls process_stages if it has not already been done"
GetOrderedStages ==
  /\ Returned(self)
  /\ call.op # "get_ordered_stages"
  /\ IF self.is_list
     THEN \E ord \in ClassifyOrders(self) :
            \E skip_ord \in SkipOrdersOf(link_stages(self, ord)) :
              OrderedStages(process_stages(self, ord, skip_ord), ord, skip_ord)
     ELSE OrderedStages(self, <<>>, <<>>)

NextWalk == ProcessStages \/ GetOrderedStages

SpecWalk == InitWalk /\ [][NextWalk]_vars

(***************************************************************************)
(* Scope specification: a document whose global ckey section and whose      *)
(* local scopes "s1" and "s2" hold the key "k" with a value of their own,   *)
(* with null, or do not hold it (the scope "s2" may be missing), and        *)
(* _interpolate_structure on every structure of nesting at most            *)
(* MaxNesting whose maps and lists have at most MaxItems items, the maps   *)
(* with the _serial "s1" or "s2" or none, for every scope argument.        *)
(***************************************************************************)
MaxNesting == 2

MaxItems == 2

MapSerials == {"", "s1", "s2"}

\* the values a section can hold "k" with: 0 for no entry, otherwise null
\* or the number own
KeyChoices(own) == {0, Null, own}

\* the dict that holds "k" with the value v, the empty dict for v = 0
KeyedWith(v) == [k \in (IF v = 0 THEN {} ELSE {"k"}) |-> v]

\* the sequences of 1..len members of S
RECURSIVE SeqsUpTo(_, _)
SeqsUpTo(S, len) ==
  IF len = 0 THEN {}
  ELSE SeqsUpTo(S, len - 1) \cup [1..len -> S]

\* the maps and lists with the items `items`
Composites(items) ==
  {MapOf(serial, its) : serial \in MapSerials, its \in items}
    \cup {ListOf(its) : its \in items}

RECURSIVE Structures(_)
Structures(depth) ==
  IF depth = 0 THEN {TokenString("k")}
  ELSE Structures(depth - 1) \cup Composites(SeqsUpTo(Structures(depth - 1), MaxItems))

InitScope ==
  \E global \in KeyChoices(1), one \in KeyChoices(2), two \in KeyChoices(3),
     mine \in {0, 4}, has_two \in BOOLEAN :
    /\ has_two \/ two = 0
    /\ self = Construct([section \in {"ckey", "local", "local_ckey"} |->
                           CASE section = "ckey" -> KeyedWith(global)
                             [] section = "local_ckey" -> KeyedWith(mine)
                             [] OTHER -> [x \in {"s1"} \cup (IF has_two THEN {"s2"} ELSE {}) |->
                                            KeyedWith(IF x = "s1" THEN one ELSE two)]],
                        DefaultMaxDepth, "", GeneratedSerial)
    /\ call = NoCall

\* the iteration orders of self.local that a call with the scope `scope` reads
ScopeOrders(d, scope) ==
  IF scope = "*" THEN Perms(DOMAIN d.local) ELSE {SetToSeq(DOMAIN d.local)}

\* the call returned r = [d, ret]
StructureInterpolated(structure, scope, ord, r) ==
  /\ self' = r.d
  /\ call' = [op |-> "_interpolate_structure", pre |-> self,
              args |-> [structure |-> structure, scope |-> scope, ord |-> ord],
              ret |-> r.ret, n |-> call.n + 1]

InterpolateStructure ==
  /\ call.n = 0
  /\ \E structure \in Structures(MaxNesting), scope \in MapSerials \cup {"*"} :
       \E ord \in ScopeOrders(self, scope) :
         StructureInterpolated(structure, scope, ord,
                               interpolate_structure(self, structure, scope, ord))

NextScope == InterpolateStructure

SpecScope == InitScope /\ [][NextScope]_vars

(***************************************************************************)
(* Splice specification: a root whose stages are a chain of up to          *)
(* MaxSplice of the ids a, b, c (a dict; the last stage with or without a  *)
(* next_default of _quit) includes the file f1, whose stages are such a    *)
(* chain too, so that the two share ids or not. The include entry holds a  *)
(* _serial or none, the file an info section with a _serial or none, and   *)
(* include_options is empty or names the serial of the entry, that of the  *)
(* file, or another one; process_includes is then called.                  *)
(***************************************************************************)
MaxSplice == 2

EntrySerialGiven == "entry_serial"

SpliceIds == {StageId(1), StageId(2), StageId(3)}

\* the chains of at most len of the ids
SpliceChains(len) ==
  {c \in SeqsUpTo(SpliceIds, len) \cup {<<>>} : \A i, j \in 1..Len(c) : c[i] = c[j] => i = j}

\* the stages section that chains the ids of c by next_default
ChainStages(c, closed) ==
  [is_list |-> FALSE, list |-> <<>>,
   dict |-> [id \in Range(c) |->
               LET i == CHOOSE k \in 1..Len(c) : c[k] = id
               IN IF i < Len(c) THEN [k \in {"next_default"} |-> c[i + 1]]
                  ELSE IF closed THEN [k \in {"next_default"} |-> QUIT]
                  ELSE EmptyDict]]

\* the root: its include entry has the _serial EntrySerialGiven if has_serial
SpliceRoot(c, closed, has_serial, options) ==
  [section \in {"stages", "include", "include_options"} |->
     CASE section = "stages" -> ChainStages(c, closed)
       [] section = "include" ->
            <<IF has_serial
              THEN [id |-> FileNames[1], simple |-> FALSE, serial |-> EntrySerialGiven]
              ELSE [id |-> FileNames[1], simple |-> FALSE]>>
       [] OTHER -> options]

\* the file f1
SpliceFile(c, closed, has_info) ==
  [section \in {"stages", "include"} \cup (IF has_info THEN {"info"} ELSE {}) |->
     CASE section = "stages" -> ChainStages(c, closed)
       [] section = "include" -> <<>>
       [] OTHER -> [k \in {"_serial"} |-> IncomingSerial]]

InitSplice ==
  \E c \in SpliceChains(MaxSplice), m \in SpliceChains(MaxSplice),
     closed \in BOOLEAN, has_serial \in BOOLEAN, has_info \in BOOLEAN,
     options \in {{}, {EntrySerialGiven}, {IncomingSerial}, {GeneratedSerial}} :
    /\ self = Construct(SpliceRoot(c, closed, has_serial, options),
                        DefaultMaxDepth, "", GeneratedSerial)
    /\ call = [op |-> "init", pre |-> EmptyDict, args |-> EmptyDict, n |-> 0,
               files |-> [f \in {FileNames[1]} |-> SpliceFile(m, closed, has_info)]]

SpecSplice == InitSplice /\ [][ProcessIncludes]_vars

(***************************************************************************)
(* Path specification: the documents of the stage-flow specification with  *)
(* at most MaxPathSize stages and settings, on which _get_stage_path is    *)
(* called with the path next_default or next_pass, with or without an      *)
(* entry stage, and either with no stage_dict (the stages of the document, *)
(* compiled first when they are a list) or, as process_stages calls it,    *)
(* with the dict of the stages that declare a successor while self.stages  *)
(* is as the document was built.                                           *)
(***************************************************************************)
MaxPathSize == 4

InitPath ==
  \E n \in 1..MaxPathSize, is_list \in BOOLEAN, chained \in BOOLEAN :
    \E f \in Assignments(n, MaxPathSize - n, StageFields) :
      /\ self = Construct(RawDocument(n, f, is_list,
                                      [chained |-> chained, grouped |-> FALSE]),
                          DefaultMaxDepth, "", GeneratedSerial)
      /\ call = NoCall

\* the stages of d as built, by id
BuiltStages(d) ==
  IF d.is_list THEN ListStore([list |-> d.stages_list, order |-> d.order]) ELSE d.stages

\* next_order_stages: the stages that declare a next_pass or a next_default
SucceededStages(d) ==
  [id \in {x \in DOMAIN BuiltStages(d) :
             {"next_default", "next_pass"} \cap DOMAIN BuiltStages(d)[x] # {}} |->
     BuiltStages(d)[id]]

\* _get_stage_path(path, init_stage, stage_dict) on document d (self then)
StagePath(d, path, init_stage, stage_dict, own) ==
  /\ self' = d
  /\ \E walk_ord \in (IF d.err # "" THEN {<<>>} ELSE Perms(DOMAIN stage_dict)) :
       call' = [op |-> "get_stage_path", pre |-> self,
                args |-> [path |-> path, init_stage |-> init_stage, own |-> own,
                          stage_dict |-> stage_dict, walk_ord |-> walk_ord],
                ret |-> IF d.err # "" THEN [ordered |-> <<>>, other |-> {}, err |-> d.err]
                        ELSE get_stage_path(d, path, init_stage, stage_dict, walk_ord),
                n |-> call.n + 1]

\* "if stage_dict is None": stage_dict = self.stages
OwnStagePath(d, path, init_stage) == StagePath(d, path, init_stage, d.stages, TRUE)

GetStagePath ==
  /\ CanCall
  /\ \E path \in {"next_default", "next_pass"},
        init_stage \in {None, StageId(1), StageId(2)}, own \in BOOLEAN :
       IF ~own THEN StagePath(self, path, init_stage, SucceededStages(self), FALSE)
       ELSE IF self.is_list
       THEN \E ord \in ClassifyOrders(self) :
              \E skip_ord \in SkipOrdersOf(link_stages(self, ord)) :
                OwnStagePath(process_stages(self, ord, skip_ord), path, init_stage)
       ELSE OwnStagePath(self, path, init_stage)

SpecPath == InitPath /\ [][GetStagePath]_vars

(***************************************************************************)
(* Properties of the stage-flow compiler.                                  *)
(***************************************************************************)
After(op) == call.op = op

\* the raw stages of document d, in input order (list form only)
RawKeys(d) == [i \in 1..Len(d.stages_list) |-> d.stages_list[i].key]

Distinct(seq) == \A i, j \in 1..Len(seq) : seq[i] = seq[j] => i = j

\* a list of n >= 1 stages with distinct ids, none of which carries
\* next_pass, next_default, order or disable
PlainList(d) ==
  /\ d.is_list
  /\ Len(d.stages_list) >= 1
  /\ Distinct(RawKeys(d))
  /\ \A i \in 1..Len(d.stages_list) :
       DOMAIN d.stages_list[i].val
         \cap {"next_pass", "next_default", "order", "disable"} = {}

\* stage `from` names stage `to` as its next_default
Linked(d, from, to) ==
  /\ from \in DOMAIN d.stages
  /\ "next_default" \in DOMAIN d.stages[from]
  /\ d.stages[from]["next_default"] = to

LinkedBeforeSkip == link_stages(call.pre, call.args.ord)

DefaultChainBeforeSkip ==
  get_stage_path(LinkedBeforeSkip, "next_default", None, LinkedBeforeSkip.stages,
                 call.args.ord).ordered

\* position i of the default chain holds a disabled stage that is neither
\* the first nor the last stage of the chain
DisabledMiddle(i) ==
  /\ 1 < i
  /\ i < Len(DefaultChainBeforeSkip)
  /\ DefaultChainBeforeSkip[i] \in DisabledStages(LinkedBeforeSkip.stages)

\* C3: when process_stages returns, the predecessor of a disabled stage b in
\* the middle of the default chain names b's declared successor (b's
\* next_pass if it has one, else its next_default) as its next_default, and
\* b is still in the stage map.
C3_DisabledMiddleSkipped ==
  (After("process_stages") /\ ~StagesEmpty(call.pre) /\ Returned(self)) =>
    \A i \in 1..Len(DefaultChainBeforeSkip) :
      DisabledMiddle(i) =>
        LET b == DefaultChainBeforeSkip[i]
            a == DefaultChainBeforeSkip[i - 1]
        IN /\ b \in DOMAIN self.stages
           /\ DeclaredSuccessor(self.stages[b]) # {}
           /\ \A c \in DeclaredSuccessor(self.stages[b]) : Linked(self, a, c)

C3_Witness ==
  /\ After("process_stages")
  /\ ~StagesEmpty(call.pre)
  /\ Returned(self)
  /\ DefaultChainBeforeSkip = <<StageId(1), StageId(2), StageId(3)>>
  /\ DisabledMiddle(2)
  /\ Linked(self, StageId(1), StageId(3))

\* the ids of the raw stages of document d
RawIds(d) == IF d.is_list THEN Range(RawKeys(d)) ELSE DOMAIN d.stages

\* the raw stage stored under id in document d
RawStageOf(d, id) ==
  IF d.is_list
  THEN d.stages_list[CHOOSE i \in 1..Len(d.stages_list) : d.stages_list[i].key = id].val
  ELSE d.stages[id]

\* at least two stages, with distinct ids, every one with an order value of
\* its own and none with next_pass, next_default or disable
ExplicitOrders(d) ==
  /\ d.is_list => Distinct(RawKeys(d))
  /\ Cardinality(RawIds(d)) >= 2
  /\ \A id \in RawIds(d) :
       /\ "order" \in DOMAIN RawStageOf(d, id)
       /\ DOMAIN RawStageOf(d, id) \cap {"next_pass", "next_default", "disable"} = {}
  /\ \A x, y \in RawIds(d) :
       RawStageOf(d, x)["order"] = RawStageOf(d, y)["order"] => x = y

\* y carries the least order value above that of x
NextByOrder(d, x, y) ==
  /\ RawStageOf(d, x)["order"] < RawStageOf(d, y)["order"]
  /\ \A z \in RawIds(d) :
       ~(/\ RawStageOf(d, x)["order"] < RawStageOf(d, z)["order"]
         /\ RawStageOf(d, z)["order"] < RawStageOf(d, y)["order"])

\* C4: process_stages links stages that carry explicit unique order values
\* (and no next_pass / next_default) through next_default in ascending order
\* of those values, whatever their input position.
C4_ExplicitOrderLinked ==
  (After("process_stages") /\ ExplicitOrders(call.pre)) =>
    /\ Returned(self)
    /\ \A x, y \in RawIds(call.pre) :
         NextByOrder(call.pre, x, y) => Linked(self, x, y)

\* the list [a: order 2, b: order 1] compiled: a is linked to b
C4_Witness ==
  /\ After("process_stages")
  /\ ExplicitOrders(call.pre)
  /\ call.pre.is_list
  /\ RawKeys(call.pre) = <<StageId(1), StageId(2)>>
  /\ RawStageOf(call.pre, StageId(1))["order"] = 2
  /\ RawStageOf(call.pre, StageId(2))["order"] = 1
  /\ Linked(self, StageId(1), StageId(2))

(***************************************************************************)
(* Properties of the singleton resolver and of process().                  *)
(***************************************************************************)
\* C5: when process() has completed, at most one stage of every singleton
\* group (case-folded singleton_group) is left in the stage map.
C5_OnePerGroupAfterProcess ==
  (After("process") /\ Returned(self)) =>
    \A g \in Groups(self.stages) : Cardinality(Members(self.stages, g)) <= 1

\* process() has completed on [a: group g, b: group g] and both are left
C5_Witness ==
  /\ After("process")
  /\ Returned(self)
  /\ {StageId(1), StageId(2)} \subseteq Members(self.stages, "g")

\* the singleton_choice values, case-folded, that members of group g declare
DeclaredChoices(stages, g) ==
  {Lower(stages[id]["singleton_choice"]) :
     id \in {x \in Members(stages, g) : "singleton_choice" \in DOMAIN stages[x]}}

\* no member of M has a lower / higher instance than stage id
MinInstance(stages, M, id) == \A m \in M : stages[id]["instance"] <= stages[m]["instance"]

MaxInstanceOf(stages, M, id) == \A m \in M : stages[id]["instance"] >= stages[m]["instance"]

\* the stages the last call took out of the stage map
Deleted == (DOMAIN call.pre.stages) \ (DOMAIN self.stages)

\* exactly one member of every group is left: one of minimum instance when
\* the group declares no choice but "first", one of maximum instance when
\* it declares "last" only
KeptMembers ==
  \A g \in Groups(call.pre.stages) :
    LET M == Members(call.pre.stages, g)
    IN /\ Cardinality(M \cap DOMAIN self.stages) = 1
       /\ \A k \in M \cap DOMAIN self.stages :
            /\ DeclaredChoices(call.pre.stages, g) \subseteq {"first"}
                 => MinInstance(call.pre.stages, M, k)
            /\ DeclaredChoices(call.pre.stages, g) = {"last"}
                 => MaxInstanceOf(call.pre.stages, M, k)

\* every flow control of a remaining stage that named a deleted member y
\* names y's declared successor (when that one was not deleted as well)
ReroutedToSuccessor ==
  \A s \in DOMAIN self.stages :
    \A i \in 1..Len(flow_controls) :
      LET fc == flow_controls[i]
          before == call.pre.stages[s]
      IN (fc \in DOMAIN before /\ before[fc] \in Deleted) =>
           \A z \in DeclaredSuccessor(call.pre.stages[before[fc]]) \ Deleted :
             /\ fc \in DOMAIN self.stages[s]
             /\ self.stages[s][fc] = z

\* C6: when process_singletons returns normally, exactly one member of every
\* case-folded singleton group is left, the one of minimum instance under
\* "first" (the default) and of maximum instance under "last"; the others
\* are deleted and every flow control that named a deleted member names
\* that member's successor.
C6_SingletonsResolved ==
  (After("process_singletons") /\ Returned(self)) =>
    KeptMembers /\ ReroutedToSuccessor

\* b named the deleted stage a by next_fail and is left naming a's own
\* next_fail instead of a's successor
C6_Witness ==
  /\ After("process_singletons")
  /\ Returned(self)
  /\ StageId(1) \in Deleted
  /\ StageId(2) \in DOMAIN self.stages
  /\ "next_fail" \in DOMAIN call.pre.stages[StageId(2)]
  /\ call.pre.stages[StageId(2)]["next_fail"] = StageId(1)
  /\ DeclaredSuccessor(call.pre.stages[StageId(1)]) = {StageId(2)}
  /\ self.stages[StageId(2)]["next_fail"] = QUIT

(***************************************************************************)
(* Properties of the merge engine.                                         *)
(***************************************************************************)
\* the stage maps of self and of merge_from when the rename loop of the
\* last merge began
MergedMine == call.args.mine.stages

MergedTheirs == call.args.theirs.stages

\* the first of n_2, n_3, ... that is not in taken
FirstFree(n, taken) ==
  Suffixed(n, CHOOSE i \in 2..(Cardinality(taken) + 2) :
                /\ Suffixed(n, i) \notin taken
                /\ \A j \in 2..(i - 1) : Suffixed(n, j) \in taken)

\* the key under which the merge is to store the incoming stage x
Landed(x) ==
  IF x \in DOMAIN MergedMine
  THEN FirstFree(x, (DOMAIN MergedMine) \cup (DOMAIN MergedTheirs))
  ELSE x

\* the flow-control fields of stage v that name n
Naming(v, n) ==
  {flow_controls[j] : j \in {i \in 1..Len(flow_controls) :
                               /\ flow_controls[i] \in DOMAIN v
                               /\ v[flow_controls[i]] = n}}

\* C1: after a merge that returns, for every stage id n of both documents,
\* self's own stage is still stored under n, the incoming stage is stored
\* under the first free one of n_2, n_3, ... with that key as its id, every
\* flow-control field of an incoming stage that named n names the new id,
\* and the merged stage map has |self stages| + |incoming stages| entries.
C1_MergeRenames ==
  (After("merge") /\ Returned(self)) =>
    /\ \A n \in (DOMAIN MergedMine) \cap (DOMAIN MergedTheirs) :
         /\ n \in DOMAIN self.stages
         /\ self.stages[n]["_serial"] = MergedMine[n]["_serial"]
         /\ Landed(n) \in DOMAIN self.stages
         /\ self.stages[Landed(n)]["_serial"] = MergedTheirs[n]["_serial"]
         /\ self.stages[Landed(n)]["id"] = Landed(n)
         /\ \A x \in DOMAIN MergedTheirs :
              \A fc \in Naming(MergedTheirs[x], n) :
                /\ Landed(x) \in DOMAIN self.stages
                /\ fc \in DOMAIN self.stages[Landed(x)]
                /\ self.stages[Landed(x)][fc] = Landed(n)
    /\ Cardinality(DOMAIN self.stages) =
         Cardinality(DOMAIN MergedMine) + Cardinality(DOMAIN MergedTheirs)

\* a merge has returned in which an incoming stage named a stage id of both
\* documents
C1_Witness ==
  /\ After("merge")
  /\ Returned(self)
  /\ \E n \in (DOMAIN MergedMine) \cap (DOMAIN MergedTheirs) :
       \E x \in DOMAIN MergedTheirs : x # n /\ Naming(MergedTheirs[x], n) # {}

\* C9: after a merge that returns, when self.info had no cirrus_job_id and
\* the incoming info had one, every key of the incoming info carries the
\* incoming value in self.info; otherwise every key of self.info keeps its
\* value (name and desc excepted when self's name was the default name) and
\* the keys self.info lacked carry the incoming values.
C9_InfoPrecedence ==
  (After("merge") /\ Returned(self)) =>
    IF /\ "cirrus_job_id" \notin DOMAIN call.pre.info
       /\ "cirrus_job_id" \in DOMAIN call.args.merge_from.info
    THEN \A k \in DOMAIN call.args.merge_from.info :
           k \in DOMAIN self.info /\ self.info[k] = call.args.merge_from.info[k]
    ELSE /\ \A k \in DOMAIN call.pre.info :
              \/ k \in {"name", "desc"} /\ call.pre.info["name"] = default_name
              \/ k \in DOMAIN self.info /\ self.info[k] = call.pre.info[k]
         /\ \A k \in (DOMAIN call.args.merge_from.info) \ (DOMAIN call.pre.info) :
              k \in DOMAIN self.info /\ self.info[k] = call.args.merge_from.info[k]

\* a merge has returned of an incoming info with a job id into an info
\* without one that declared another name
C9_Witness ==
  /\ After("merge")
  /\ Returned(self)
  /\ "cirrus_job_id" \notin DOMAIN call.pre.info
  /\ "cirrus_job_id" \in DOMAIN call.args.merge_from.info
  /\ call.pre.info["name"] \notin {default_name, call.args.merge_from.info["name"]}

\* C10: after a merge that returns, the serial in self.info is the serial
\* self had before the merge, and is self._serial.
C10_SerialUnchanged ==
  (After("merge") /\ Returned(self)) =>
    /\ self.info["_serial"] = call.pre.info["_serial"]
    /\ self.info["_serial"] = self.serial

\* a merge has returned whose incoming document has another serial than self
C10_Witness ==
  /\ After("merge")
  /\ Returned(self)
  /\ call.args.merge_from.serial # call.pre.serial

(***************************************************************************)
(* Properties of the variable interpolator.                                *)
(***************************************************************************)
\* the call of _interpolate_string has returned or raised
Interpolated == call.op = "_interpolate_string" /\ ~Interpolating

\* the iterations of `while True` that have substituted: the one that
\* raises the loop error substitutes nothing
PassesRun == IF call.acc.err = "ValueError" THEN call.acc.loops - 1 ELSE call.acc.loops

\* the literal before and the literal after the token of a value with one
\* token
LiteralBefore(parts) == IF parts[1].kind = "lit" THEN parts[1].text ELSE ""

LiteralAfter(parts) == IF parts[Len(parts)].kind = "lit" THEN parts[Len(parts)].text ELSE ""

\* One more lookup along the references of a chain. c = [end, key, depth,
\* before, after]: the chain has looked up c.depth keys, is to look up
\* c.key next unless it has ended (c.end), and stands for the text
\* c.before ... c.after
Follow(ckey, c) ==
  IF c.end # "" THEN c
  ELSE IF c.key \notin DOMAIN ckey
  THEN [c EXCEPT !.end = "missing", !.depth = @ + 1]
  ELSE IF ~ckey[c.key].str
  THEN [c EXCEPT !.end = "number", !.depth = @ + 1]
  ELSE IF FindAll(ckey[c.key].parts) = <<>>
  THEN [c EXCEPT !.end = "literal", !.depth = @ + 1,
                 !.before = @ \o ckey[c.key].parts[1].text]
  ELSE [c EXCEPT !.key = FindAll(ckey[c.key].parts)[1], !.depth = @ + 1,
                 !.before = @ \o LiteralBefore(ckey[c.key].parts),
                 !.after = LiteralAfter(ckey[c.key].parts) \o @]

\* 2^j more lookups
RECURSIVE FollowTwice(_, _, _)
FollowTwice(ckey, c, j) ==
  IF c.end # "" THEN c
  ELSE IF j = 0 THEN Follow(ckey, c)
  ELSE FollowTwice(ckey, FollowTwice(ckey, c, j - 1), j - 1)

\* the least j with 2^j > n
Doublings(n) == CHOOSE j \in 0..n : 2^j > n /\ (j = 0 \/ 2^(j - 1) <= n)

\* the chain of references that starts at the token of key: how it ends
\* (in a cycle when it has not ended after more lookups than there are
\* keys), the number of keys it looks up and the text it stands for
Chain(ckey, key) ==
  FollowTwice(ckey, [end |-> "", key |-> key, depth |-> 0, before |-> "", after |-> ""],
              Doublings(Cardinality(DOMAIN ckey)))

ChainEnd(key) ==
  IF Chain(call.pre.ckey, key).end = "" THEN "cycle" ELSE Chain(call.pre.ckey, key).end

ChainDepth(key) == Chain(call.pre.ckey, key).depth

ChainText(key) == Chain(call.pre.ckey, key).before \o Chain(call.pre.ckey, key).after

\* the string with the text of its chain for every token
Resolved(string) ==
  Text([i \in 1..Len(string) |->
          IF string[i].kind = "tok" THEN Lit(ChainText(string[i].key)) ELSE string[i]])

\* the keys of the tokens of the string of the call
Keys == {FindAll(call.args.string)[i] : i \in 1..Len(FindAll(call.args.string))}

Unresolvable ==
  {key \in Keys : ~Resolves(get_dict(call.pre), key)}

\* C8: interpolating a string with a token that resolves to nothing returns
\* a string that contains the token, and the token is in
\* interpolation_errors afterwards.
C8_MissingTokenKept ==
  Interpolated =>
    \A key \in Unresolvable :
      /\ call.acc.done
      /\ call.acc.ret.str
      /\ \E i \in 1..Len(call.acc.ret.parts) : call.acc.ret.parts[i] = Tok(key)
      /\ \E i \in 1..Len(self.interpolation_errors) : self.interpolation_errors[i] = Tok(key)

\* a string with a token that resolves to nothing has been interpolated
\* together with a token of a number
C8_Witness ==
  /\ Interpolated
  /\ Unresolvable # {}
  /\ \E key \in Keys : ChainEnd(key) = "number" /\ ChainDepth(key) = 1

(***************************************************************************)
(* Properties of the later claims on the stage-flow compiler.              *)
(***************************************************************************)
\* the list of call.pre as "Make all names unique" leaves it
RenamedList == UniqueNames([list |-> call.pre.stages_list, order |-> call.pre.order], 1).list

\* C11: process_stages on a list of stages with any ids, equal ones
\* included, returns a map with as many stages as the list has, under
\* pairwise distinct keys, each stage holding its key as its id.
C11_ListNamesUnique ==
  (After("process_stages") /\ Returned(self) /\ call.pre.is_list) =>
    /\ ~self.is_list
    /\ \A i, j \in 1..Len(RenamedList) : RenamedList[i].key = RenamedList[j].key => i = j
    /\ DOMAIN self.stages = {RenamedList[i].key : i \in 1..Len(RenamedList)}
    /\ Cardinality(DOMAIN self.stages) = Len(call.pre.stages_list)
    /\ \A id \in DOMAIN self.stages : self.stages[id]["id"] = id

\* process_stages has returned on a list of three stages with one id
C11_Witness ==
  /\ After("process_stages")
  /\ Returned(self)
  /\ call.pre.is_list
  /\ Len(call.pre.stages_list) = 3
  /\ \A i \in 1..3 : call.pre.stages_list[i].key = call.pre.stages_list[1].key

\* the designated entry stage of d: the declared init_stage if set,
\* otherwise auto_init_stage
Entry(d) == IF d.init_stage # None THEN d.init_stage ELSE d.auto_init_stage

\* C12: after process_stages has returned on a non-empty stage set, the
\* designated entry stage is the id of a stage of the stage map.
C12_EntryDesignated ==
  (After("process_stages") /\ Returned(self) /\ StageKeys(call.pre) # {}) =>
    /\ Entry(self) # None
    /\ Entry(self) \in DOMAIN self.stages

\* process_stages has returned on a document whose declared init_stage is
\* disabled
C12_Witness ==
  /\ After("process_stages")
  /\ Returned(self)
  /\ call.pre.init_stage \in StageKeys(call.pre)
  /\ call.pre.init_stage \in DisabledStages(self.stages)

(***************************************************************************)
(* Properties of the flow rewriter.                                        *)
(***************************************************************************)
\* some flow control of some stage of d names a member of ids
NamesSome(d, ids) ==
  \E id \in DOMAIN d.stages : \E i \in 1..Len(flow_controls) :
    /\ flow_controls[i] \in DOMAIN d.stages[id]
    /\ d.stages[id][flow_controls[i]] \in ids

\* C13: when skip_stages(ids) or remove_stages(ids) has returned, no flow
\* control of a stage of the map names a member of ids and init_stage is no
\* member of ids; remove_stages has deleted the stages of ids and no other,
\* skip_stages none.
C13_NoReferenceToSkipped ==
  ((After("skip_stages") \/ After("remove_stages")) /\ Returned(self)) =>
    /\ ~NamesSome(self, call.args.stage_list)
    /\ self.init_stage \notin call.args.stage_list
    /\ After("remove_stages") =>
         DOMAIN self.stages = (DOMAIN call.pre.stages) \ call.args.stage_list
    /\ After("skip_stages") => DOMAIN self.stages = DOMAIN call.pre.stages

\* remove_stages has returned on a set of ids that held init_stage and a
\* stage that a flow control named
C13_Witness ==
  /\ After("remove_stages")
  /\ Returned(self)
  /\ call.pre.init_stage \in call.args.stage_list
  /\ NamesSome(call.pre, call.args.stage_list)
  /\ DOMAIN self.stages # {}

(***************************************************************************)
(* Properties of the include resolver.                                     *)
(***************************************************************************)
\* the ids of the include list `include`
IncludeIdsOf(include) == {include[n].id : n \in 1..Len(include)}

\* the files at nesting level <= d of the include list `include`
RECURSIVE Within(_, _, _)
Within(files, include, d) ==
  IF d = 0 THEN {}
  ELSE IncludeIdsOf(include) \cup
       UNION {Within(files, files[f]["include"], d - 1) : f \in IncludeIdsOf(include)}

\* the files the claimed bound lets process_includes load
Allowed ==
  Within(call.files, call.pre.include,
         IF call.pre.max_depth = -1 THEN MaxFiles ELSE call.pre.max_depth)

\* the files a stage of the result comes from
StageFiles ==
  {f \in DOMAIN call.files :
     \E id \in DOMAIN self.stages : Name(id.base) \in DOMAIN call.files[f]["stages"].dict}

\* C14: with the include-depth bound d, process_includes merges nothing when
\* d = 0, only documents at nesting level <= d when d > 0 (no stage or ckey
\* of a deeper document is in the result) and every level when d = -1
C14_DepthBound ==
  (After("process_includes") /\ call.n = 1 /\ Returned(self)) =>
    /\ self.included \subseteq Allowed
    /\ (DOMAIN self.ckey) \ (DOMAIN call.pre.ckey) \subseteq Allowed
    /\ StageFiles \subseteq Allowed
    /\ call.pre.max_depth = -1 => self.included = Allowed
    /\ call.pre.max_depth = 0 => self = call.pre

\* process_includes has completed with the bound 1 on a root whose include
\* includes a further file, which is not included by the root itself
C14_Witness ==
  /\ After("process_includes") /\ call.n = 1 /\ Returned(self)
  /\ call.pre.max_depth = 1
  /\ \E f \in Within(call.files, call.pre.include, 2) : f \notin Allowed

\* the sections of d process_includes can write
IncludeSections(d) ==
  [stages |-> [is_list |-> d.is_list, list |-> d.stages_list, dict |-> d.stages],
   ckey |-> d.ckey, local |-> d.local, ckey_template |-> d.ckey_template,
   included |-> d.included, include |-> d.include]

\* C15: a call of process_includes after one that has completed, or on a
\* document whose include list is empty, changes no section
C15_Idempotent ==
  (After("process_includes") /\ Returned(self)
     /\ (call.n = 2 \/ Len(call.pre.include) = 0)) =>
    IncludeSections(self) = IncludeSections(call.pre)

\* process_includes has completed a second time on a document that includes
\* a file and holds a ckey_template
C15_Witness ==
  /\ After("process_includes") /\ call.n = 2 /\ Returned(self)
  /\ call.pre.included # {}
  /\ DOMAIN call.pre.ckey_template # {}

(***************************************************************************)
(* Properties of the serialization.                                        *)
(***************************************************************************)
\* C16: for a document that has completed compilation, get_dict() of the
\* document constructed from get_dict() equals get_dict()
C16_RoundTrip ==
  (After("get_dict") /\ call.n >= 1) => call.args.reloaded = call.args.ret

\* get_dict() was called on a compiled document that holds stages, an
\* include entry and a ckey
C16_Witness ==
  /\ After("get_dict") /\ call.n >= 1
  /\ {"stages", "include", "ckey", "local", "info"} \subseteq DOMAIN call.args.ret

(***************************************************************************)
(* Properties of the ckey store.                                           *)
(***************************************************************************)
\* the scope a call of get_ckey names
CalledScope == IF call.args.scope = "" THEN call.pre.serial ELSE call.args.scope

\* the call names the key and one scope
KeyedCall ==
  /\ After("get_ckey") /\ call.ret.err = ""
  /\ call.args.key # NoKey
  /\ call.args.scope # "*"

InLocal ==
  /\ CalledScope \in DOMAIN call.pre.local
  /\ call.args.key \in DOMAIN call.pre.local[CalledScope]

\* C17: get_ckey(key, scope, default) returns local[scope][key] whenever the
\* key is in local[scope], whatever the value; otherwise ckey[key] whenever
\* the key is in the global ckey; the default only when it is in neither
C17_LocalThenGlobalThenDefault ==
  KeyedCall =>
    call.ret.ret = IF InLocal THEN Val(call.pre.local[CalledScope][call.args.key])
                   ELSE IF call.args.key \in DOMAIN call.pre.ckey
                   THEN Val(call.pre.ckey[call.args.key])
                   ELSE call.args.default

\* get_ckey was called with a key that local[scope] holds with a false
\* value and the global ckey holds with another value
C17_Witness ==
  /\ KeyedCall /\ InLocal
  /\ call.pre.local[CalledScope][call.args.key] = 0
  /\ call.args.key \in DOMAIN call.pre.ckey
  /\ call.pre.ckey[call.args.key] # 0

(***************************************************************************)
(* Properties of the construction.                                         *)
(***************************************************************************)
\* the serial the precedence gives: that of the raw info, else the
\* caller's, else the generated one
SerialByPrecedence ==
  IF "info" \in DOMAIN call.args.json_src /\ "_serial" \in DOMAIN call.args.json_src["info"]
  THEN call.args.json_src["info"]["_serial"]
  ELSE IF call.args.serial # "" THEN call.args.serial
  ELSE GeneratedSerial

\* C18: construction succeeds for every raw mapping, with or without an
\* info section; the serial is the one the precedence gives, the info
\* section holds it and local has an entry for it
C18_SerialAssigned ==
  After("__init__") =>
    /\ Returned(self)
    /\ self.serial = SerialByPrecedence
    /\ "_serial" \in DOMAIN self.info /\ self.info["_serial"] = self.serial
    /\ self.serial \in DOMAIN self.local

\* a document was constructed with a serial from the caller from a raw
\* mapping without an info section
C18_Witness ==
  /\ After("__init__")
  /\ call.args.serial # ""
  /\ "info" \notin DOMAIN call.args.json_src

(***************************************************************************)
(* Properties of the merge of compiled chains.                             *)
(***************************************************************************)
\* d is compiled, declares no init_stage and its stages, two or more, are
\* one chain along next_default with no other setting of the flow
LinearChain(d) ==
  /\ Returned(d) /\ ~d.is_list
  /\ d.init_stage = None
  /\ Cardinality(DOMAIN d.stages) >= 2
  /\ \A id \in DOMAIN d.stages :
       (DOMAIN d.stages[id]) \cap {"next_pass", "next_fail", "next_timeout", "disable"} = {}
  /\ \E first \in DOMAIN d.stages :
       Len(Walk(d.stages, "next_default", first, <<>>)) = Cardinality(DOMAIN d.stages)

\* the merge of two compiled linear chains with disjoint stage ids
ChainsMerged ==
  /\ After("merge")
  /\ LinearChain(call.pre) /\ LinearChain(call.args.merge_from)
  /\ (DOMAIN call.pre.stages) \cap (DOMAIN call.args.merge_from.stages) = {}

\* C19: the merge of two compiled documents with disjoint stage ids, each a
\* linear default chain of two or more stages without init_stage, completes
\* without the ambiguous-entry error and designates exactly one entry stage
C19_ChainsMergeToOneEntry ==
  ChainsMerged =>
    /\ Returned(self)
    /\ self.init_stage = None
    /\ self.auto_init_stage \in DOMAIN self.stages

\* a chain a -> b has merged a chain d -> e
C19_Witness ==
  /\ ChainsMerged
  /\ DOMAIN self.stages = {StageId(1), StageId(2), StageId(MaxChainLen + 1),
                           StageId(MaxChainLen + 2)}

(***************************************************************************)
(* Properties of the ordered stage list.                                   *)
(***************************************************************************)
\* get_ordered_stages() has returned on a document process_stages() completed on
Ordered ==
  /\ After("get_ordered_stages") /\ call.n >= 1
  /\ Returned(self) /\ call.ret.err = ""

\* C20: after process_stages, the ordered stage list holds no stage whose
\* disable is set, whichever stage of the chain is disabled
C20_NoDisabledInOrder ==
  Ordered =>
    \A i \in 1..Len(call.ret.ordered) :
      ~Get(self.stages[call.ret.ordered[i]], "disable", FALSE)

\* the ordered stage list of a compiled document without init_stage whose
\* first stage is disabled and is followed by a stage that is not
C20_Witness ==
  /\ Ordered
  /\ self.init_stage = None
  /\ self.auto_init_stage \in DOMAIN self.stages
  /\ Get(self.stages[self.auto_init_stage], "disable", FALSE)
  /\ Get(self.stages[self.auto_init_stage], "next_default", None) \in DOMAIN self.stages
  /\ ~Get(self.stages[self.stages[self.auto_init_stage]["next_default"]], "disable", FALSE)

(***************************************************************************)
(* Properties of the redirect of skip_stages.                              *)
(***************************************************************************)
\* the successor of a stage: its next_pass if it has one, else its next_default
SkipSuccessor(d_stage) ==
  IF "next_pass" \in DOMAIN d_stage THEN d_stage["next_pass"] ELSE d_stage["next_default"]

\* flow control fc of stage id of document d names a stage of ids whose
\* successor is defined and is no member of ids
NamesSkipped(d, id, fc, ids) ==
  /\ fc \in DOMAIN d.stages[id]
  /\ d.stages[id][fc] \in ids
  /\ d.stages[id][fc] \in DOMAIN d.stages
  /\ {"next_pass", "next_default"} \cap DOMAIN d.stages[d.stages[id][fc]] # {}
  /\ SkipSuccessor(d.stages[d.stages[id][fc]]) \notin ids

\* C21: when skip_stages(ids) has returned, every flow control, of whatever
\* kind, that named a stage d of ids whose successor (next_pass if d has
\* one, else next_default) is no member of ids holds that successor.
C21_RedirectToPassElseDefault ==
  (After("skip_stages") /\ Returned(self)) =>
    \A id \in DOMAIN call.pre.stages : \A i \in 1..Len(flow_controls) :
      NamesSkipped(call.pre, id, flow_controls[i], call.args.stage_list) =>
        self.stages[id][flow_controls[i]] =
          SkipSuccessor(call.pre.stages[call.pre.stages[id][flow_controls[i]]])

\* skip_stages has returned on a set of ids that a next_fail named, the
\* stage named having a next_fail of its own and no next_pass
C21_Witness ==
  /\ After("skip_stages")
  /\ Returned(self)
  /\ \E id \in DOMAIN call.pre.stages :
       /\ NamesSkipped(call.pre, id, "next_fail", call.args.stage_list)
       /\ "next_fail" \in DOMAIN call.pre.stages[call.pre.stages[id]["next_fail"]]
       /\ "next_pass" \notin DOMAIN call.pre.stages[call.pre.stages[id]["next_fail"]]

(***************************************************************************)
(* Properties of the classification of process_stages.                     *)
(***************************************************************************)
\* C22: in the list form and in the dict form, every stage that declares
\* next_pass leaves the classification of process_stages with a next_default
\* equal to its next_pass, whatever next_default it declared.
C22_NextPassTakesPrecedence ==
  (After("process_stages") /\ ~StagesEmpty(call.pre)
     /\ classify_stages(call.pre, call.args.ord).err = "") =>
    \A id \in RawIds(call.pre) :
      "next_pass" \in DOMAIN RawStageOf(call.pre, id) =>
        classify_stages(call.pre, call.args.ord).store[id]["next_default"] =
          RawStageOf(call.pre, id)["next_pass"]

\* process_stages has classified a dict-form stage that declares a
\* next_pass and another next_default
C22_Witness ==
  /\ After("process_stages")
  /\ ~call.pre.is_list
  /\ classify_stages(call.pre, call.args.ord).err = ""
  /\ \E id \in DOMAIN call.pre.stages :
       /\ {"next_pass", "next_default"} \subseteq DOMAIN call.pre.stages[id]
       /\ call.pre.stages[id]["next_pass"] # call.pre.stages[id]["next_default"]

(***************************************************************************)
(* Properties of the substitution of _interpolate_string.                  *)
(***************************************************************************)
\* str(value): the string form of a value of the ckey section
StringForm(value) == IF value.str THEN value.parts ELSE <<Lit(Digits[value.num])>>

\* the iteration to come finds the token of key, a key that resolves, and no
\* other token in a string that is more than this token
PartialToken(key) ==
  /\ Interpolating
  /\ call.acc.loops + 1 < LoopCap
  /\ FindAll(call.acc.string) # <<>>
  /\ \A i \in 1..Len(FindAll(call.acc.string)) : FindAll(call.acc.string)[i] = key
  /\ Resolves(get_dict(call.pre), key)
  /\ call.acc.string # <<Tok(key)>>

\* C23: an iteration of _interpolate_string on a resolvable token that is
\* only part of the string replaces the token by the string form of its
\* value, a string or not, and goes on; it does not fail.
C23_PartialTokenReplaced ==
  [][\A key \in DOMAIN self.ckey :
       PartialToken(key) =>
         /\ call'.acc.err = ""
         /\ ~call'.acc.done
         /\ call'.acc.string =
              Replace(call.acc.string, key, StringForm(get_dict(call.pre)["ckey"][key]))]_vars

\* an iteration has met the token of a number after a literal
C23_Witness ==
  /\ call.op = "_interpolate_string"
  /\ call.acc.loops > 0
  /\ \E key \in DOMAIN self.ckey :
       /\ ~self.ckey[key].str
       /\ call.args.string = <<Lit("x"), Tok(key)>>

(***************************************************************************)
(* Properties of the scoped interpolator.                                  *)
(***************************************************************************)
\* the token of key under the scope `scope` ("" for none): the entry of the
\* scope's local store if there is one, else the global ckey, else the token
ScopedValue(d, key, scope) ==
  IF scope # "" /\ scope \in DOMAIN d.local /\ key \in DOMAIN d.local[scope]
  THEN ValueOf(Stored(d.local[scope][key]))
  ELSE IF key \in DOMAIN d.ckey THEN ValueOf(Stored(d.ckey[key]))
  ELSE TokenString(key)

\* the structure with every token resolved under the scope of the nearest
\* map around it that carries a _serial, under `scope` where there is none
RECURSIVE ScopedStructure(_, _, _)
ScopedStructure(d, structure, scope) ==
  CASE structure.kind = "str" -> ScopedValue(d, structure.key, scope)
    [] structure.kind = "map" ->
         [structure EXCEPT !.items =
            [i \in 1..Len(structure.items) |->
               ScopedStructure(d, structure.items[i],
                               IF structure.serial # "" THEN structure.serial ELSE scope)]]
    [] structure.kind = "list" ->
         [structure EXCEPT !.items =
            [i \in 1..Len(structure.items) |->
               ScopedStructure(d, structure.items[i], scope)]]
    [] OTHER -> structure

\* C24: _interpolate_structure resolves a token ${ckey.k} inside a map that
\* carries a _serial S to local[S][k] when that entry exists and to the
\* global ckey[k] otherwise, whatever scope the caller passed; the scope of
\* a map holds for its descendants only, its siblings keep the scope that
\* was active before.
C24_MapScopeShadowsGlobal ==
  (After("_interpolate_structure") /\ call.args.scope # "*") =>
    call.ret = ScopedStructure(call.pre, call.args.structure, call.args.scope)

\* a map of scope s1 that holds a map of scope s2 before a token has been
\* interpolated, both scopes and the global section holding the key
C24_Witness ==
  /\ After("_interpolate_structure")
  /\ call.args.scope = ""
  /\ call.args.structure = MapOf("s1", <<MapOf("s2", <<TokenString("k")>>), TokenString("k")>>)
  /\ call.ret = MapOf("s1", <<MapOf("s2", <<ValueOf(Val(3))>>), ValueOf(Val(2))>>)
  /\ "k" \in DOMAIN self.ckey

(***************************************************************************)
(* Properties of the splice of process_includes.                           *)
(***************************************************************************)
\* the document built for the include entry of d, as its process_stages left it
IncomingBuilt(d, files, perm) ==
  LET built == ConstructFile(d.include[1].id, files[d.include[1].id], d.include[1].serial,
                             FreshSerial(d, 1, d.include[1].id))
  IN process_stages(built, OrderOf(perm, StageKeys(built)), OrderOf(perm, StageKeys(built)))

\* the ids of document d in the order of its default path
InOrder(d, perm) == get_ordered_stages(d, OrderOf(perm, DOMAIN d.stages)).ordered

\* the id the stage id of the incoming document m has once m is merged into d
MergedId(d, m, id) ==
  IF id \in DOMAIN d.stages THEN NewName(id, 2, DOMAIN d.stages, DOMAIN m.stages) ELSE id

\* process_includes has completed on a root with stages whose include_options
\* names the serial of the incoming document, which has stages too
SpliceDone ==
  /\ After("process_includes") /\ call.n = 1 /\ Returned(self)
  /\ Len(call.pre.include) = 1
  /\ IncomingBuilt(call.pre, call.files, call.args.perm).serial \in call.pre.include_options
  /\ InOrder(call.pre, call.args.perm) # <<>>
  /\ InOrder(IncomingBuilt(call.pre, call.files, call.args.perm), call.args.perm) # <<>>

\* C25: when include_options names the serial of the incoming document, then
\* after the splice and the merge the next_default of the last-in-order stage
\* of self names the first-in-order stage of the incoming document under the
\* id that stage has in the merged document, also when the merge renamed it
C25_SpliceNamesMergedFirst ==
  SpliceDone =>
    LET m == IncomingBuilt(call.pre, call.files, call.args.perm)
        last == InOrder(call.pre, call.args.perm)[Len(InOrder(call.pre, call.args.perm))]
    IN /\ last \in DOMAIN self.stages
       /\ "next_default" \in DOMAIN self.stages[last]
       /\ self.stages[last]["next_default"] = MergedId(call.pre, m, InOrder(m, call.args.perm)[1])

\* the splice is done and the merge has renamed the first-in-order stage of
\* the incoming document
C25_Witness ==
  /\ SpliceDone
  /\ InOrder(IncomingBuilt(call.pre, call.files, call.args.perm), call.args.perm)[1]
       \in DOMAIN call.pre.stages

(***************************************************************************)
(* Properties of the init stage of a merge.                                *)
(***************************************************************************)
\* a merge has returned in which self declared no init_stage and the
\* incoming document declared one that names one of its stages
InitStageAdopted ==
  /\ After("merge") /\ Returned(self)
  /\ call.pre.init_stage = None
  /\ call.args.merge_from.init_stage # None
  /\ call.args.theirs.init_stage \in DOMAIN MergedTheirs

\* the last process_stages of the merge sets auto_init_stage anew, from the
\* first stage of the default path or of the stages with an order
Recomputed ==
  link_stages(MergeRenamed(call.args.mine, call.args.theirs, call.args.rename_ord),
              call.args.ord2).auto_init_stage # None

\* C26: after a merge in which self declares no init_stage and the incoming
\* document does, self.init_stage names the stage that was the init stage of
\* the incoming document under the id that stage has in the merged document,
\* also when the merge renamed it, and the auto_init_stage self had is
\* discarded: none is left unless the last process_stages of the merge sets
\* one
C26_InitStageAdoptedUnderMergedId ==
  InitStageAdopted =>
    /\ self.init_stage = Landed(call.args.theirs.init_stage)
    /\ ~Recomputed => self.auto_init_stage = None

\* the init stage the incoming document declared is renamed by the merge
C26_Witness ==
  /\ InitStageAdopted
  /\ call.args.theirs.init_stage \in DOMAIN MergedMine
  /\ call.args.mine.auto_init_stage # None

(***************************************************************************)
(* Properties of the flow graph walker.                                    *)
(***************************************************************************)
\* get_ordered_stages() was called on a map of stages, with no init_stage
\* and no auto_init_stage
EntryInferred ==
  /\ After("get_ordered_stages")
  /\ ~call.pre.is_list
  /\ DOMAIN call.pre.stages # {}
  /\ call.pre.init_stage = None
  /\ call.pre.auto_init_stage = None

\* the ids of stages that are the successor of no stage of stages: next_pass
\* if present, else next_default
Unsucceeded(stages) ==
  {id \in DOMAIN stages :
     \A x \in DOMAIN stages :
       id # (IF "next_pass" \in DOMAIN stages[x] THEN stages[x]["next_pass"]
             ELSE Get(stages[x], "next_default", None))}

FirstByOrder(stages) == {id \in DOMAIN stages : Get(stages[id], "order", 0) = 1}

Traversed ==
  /\ After("get_stage_path")
  /\ Returned(self)
  /\ call.ret.err # "ValueError"

\* the stage the traversal goes to from the last stage of ordered
Beyond(ordered) ==
  Successor(call.args.stage_dict[ordered[Len(ordered)]], call.args.path)

\* C28: the traversal of _get_stage_path terminates for every stage map and
\* entry stage, also when the successors form a cycle: the ordered list
\* holds each stage id at most once, the traversal ends without error at the
\* first revisit, at _quit or at a successor that is not in the map, and
\* every stage that was not visited is in the standalone list
C28_TraversalVisitsOnce ==
  Traversed =>
    /\ call.ret.err = ""
    /\ Distinct(call.ret.ordered)
    /\ Range(call.ret.ordered) \subseteq DOMAIN call.args.stage_dict
    /\ \A i \in 1..(Len(call.ret.ordered) - 1) :
         call.ret.ordered[i + 1] = Successor(call.args.stage_dict[call.ret.ordered[i]],
                                             call.args.path)
    /\ call.ret.ordered # <<>> =>
         \/ Beyond(call.ret.ordered) = QUIT
         \/ Beyond(call.ret.ordered) \in Range(call.ret.ordered)
         \/ Beyond(call.ret.ordered) \notin DOMAIN call.args.stage_dict
    /\ call.ret.other = (DOMAIN call.args.stage_dict) \ Range(call.ret.ordered)

\* the traversal went round a cycle of two stages or more and left a stage
\* unvisited
C28_Witness ==
  /\ Traversed
  /\ Len(call.ret.ordered) >= 2
  /\ Beyond(call.ret.ordered) \in Range(call.ret.ordered)
  /\ (DOMAIN call.args.stage_dict) \ Range(call.ret.ordered) # {}

(***************************************************************************)
(* Properties of the termination of skip_stages.                           *)
(***************************************************************************)
\* C29: skip_stages terminates for every stage map, every set of ids and
\* every max_depth, -1 included: it returns after a pass that changes
\* nothing or raises the FlowError of the loop detection, also when the
\* stages to skip name one another in a cycle
C29_SkipTerminates ==
  After("skip_stages") =>
    \/ self.err = "FlowError"
    \/ /\ self.err = ""
       /\ \/ call.args.stage_list = {}
          \/ ~SkipPass(self, call.args.stage_list, call.args.ord).reroutes

\* skip_stages was called without a bound (max_depth = -1) on stages to skip
\* that name one another in a cycle, and every pass reroutes
C29_Witness ==
  /\ After("skip_stages")
  /\ call.pre.max_depth = -1
  /\ \E id \in call.args.stage_list :
       Get(call.pre.stages[id], "next_default", None) \in call.args.stage_list
  /\ self.err = "Hang"

(***************************************************************************)
(* Properties of the errors of process_stages.                             *)
(***************************************************************************)
\* C30: process_stages on a stage section of valid shape, with any subset of
\* the stages disabled (the last of the chain or every stage included) and
\* with stages off the default path, completes or fails with ValueError,
\* and with no other kind of error
C30_OnlyValueError ==
  After("process_stages") => self.err \in {"", "ValueError"}

\* process_stages has ended on a list of two stages or more whose last stage
\* is disabled
C30_Witness ==
  /\ After("process_stages")
  /\ call.n = 1
  /\ call.pre.is_list
  /\ Len(call.pre.stages_list) >= 2
  /\ Get(call.pre.stages_list[Len(call.pre.stages_list)].val, "disable", FALSE)
  /\ self.err = "KeyError"

====
